---- MODULE Spec2Model ----
(***************************************************************************)
(* A state-machine model of libs/input/PointerController.cpp.              *)
(*                                                                         *)
(* Units.  Coordinates are kept in half pixels (Px(n) is n pixels), so the *)
(* 0.5 pixel-centre offset and the midpoint (min+max)*0.5 are exact.       *)
(* Time is kept in units of 100 ms.  Alpha is kept in units of             *)
(* 1/AlphaOne, where AlphaOne is the product of the two fade durations, so *)
(* frameDelay / POINTER_FADE_DURATION and frameDelay / SPOT_FADE_DURATION  *)
(* are exact integers.                                                     *)
(***************************************************************************)
EXTENDS Integers, Sequences, FiniteSets, TLC

\* ------------------------------------------------------------ constants

\* PointerController.cpp:34-41, in units of 100 ms.
INACTIVITY_TIMEOUT_DELAY_TIME_NORMAL == 150
INACTIVITY_TIMEOUT_DELAY_TIME_SHORT == 30
SPOT_FADE_DURATION == 2
POINTER_FADE_DURATION == 5

\* PointerController.h (not among the sources): the caps of a display's
\* spot list and of the recycle pool, scaled down from 12 and 12; the pool
\* is kept the smaller so that one display can overfill it.
MAX_SPOTS == 2
MAX_RECYCLED_SPRITES == 1

\* Spot::INVALID_ID is 0xffffffff in the header: an id no touch point has.
INVALID_ID == -1

\* ------------------------------------------------------------ bounds

\* The monotonic clock stops the model at MaxTime; a vsync pulse arrives
\* 1..MaxElapsed time units after it was requested.
MaxTime == 6
MaxElapsed == 3
\* The specifications about spots stop the clock at SpotsMaxTime.
SpotsMaxTime == 3
\* The specification of the loop's termination takes public calls while the
\* clock is at most LastCallTime.
LastCallTime == 3
\* Touch ids are 0..MaxSpotId.
MaxSpotId == 2
\* The animation resources the policy loads: the frames of the shorter one
\* and the duration per frame.
FrameCount == 2
DurationPerFrame == 2
\* The natural (orientation 0) size of display 0, in pixels.
NaturalWidth == 3
NaturalHeight == 2
\* An LmkdConnection opens MaxSockets sockets at most.
MaxSockets == 2

\* ------------------------------------------------------------ units

\* The record of a call: the method and its arguments.
Op(name, a, b) == [name |-> name, a |-> a, b |-> b]

Px(n) == 2 * n
HalfPx == Px(1) \div 2
AlphaOne == POINTER_FADE_DURATION * SPOT_FADE_DURATION

\* ------------------------------------------------------------ viewports

\* DisplayViewport: the fields PointerController reads.
Viewport(id, o, l, t, r, b, dw, dh) ==
    [displayId |-> id, orientation |-> o,
     logicalLeft |-> l, logicalTop |-> t, logicalRight |-> r, logicalBottom |-> b,
     deviceWidth |-> dw, deviceHeight |-> dh]

\* A default-constructed DisplayViewport (displayId ADISPLAY_ID_NONE).
NoViewport == Viewport(-1, 0, 0, 0, 0, 0, 0, 0)

\* DisplayViewport::isValid(), as called at PointerController.cpp:133.
IsValid(v) == v.displayId >= 0

\* getNonRotatedSize: deviceWidth/deviceHeight are already rotated.
getNonRotatedSize(v) ==
    IF v.orientation = 90 \/ v.orientation = 270
    THEN [width |-> v.deviceHeight, height |-> v.deviceWidth]
    ELSE [width |-> v.deviceWidth, height |-> v.deviceHeight]

\* ------------------------------------------------------------ icons

\* The ids the policy hands out and the resources it loads.
DefaultIconId == "DEFAULT"
CustomIconId == "CUSTOM"
PolicyMouseIcons == {"ARROW", "WAIT", "PROGRESS"}
PolicyAnimations == {"WAIT", "PROGRESS"}

\* animationFrames.size() of an animation the policy loads: the two
\* animations differ in length by one frame.
FramesOf(id) == IF id = "WAIT" THEN FrameCount ELSE FrameCount + 1


\* ------------------------------------------------------------ state

VARIABLES
    viewport,                 \* mLocked.viewport
    pointerX, pointerY,       \* mLocked.pointerX/Y, in half pixels
    pointerAlpha,             \* mLocked.pointerAlpha, 0..AlphaOne
    pointerFadeDirection,     \* -1 fading out, 0 none, 1 fading in
    presentation,             \* "POINTER" or "SPOT"
    presentationChanged,
    pointerIconChanged,
    requestedPointerType,     \* an icon id
    inactivityTimeout,        \* "NORMAL" or "SHORT"
    animationPending,
    animationTime,
    animationFrameIndex,
    lastFrameUpdatedTime,
    resourcesDisplay,         \* the display mResources and pointerIcon were loaded for
    additionalMouseResources, \* the ids in the additional-icon table
    animationResources,       \* the ids in the animation table
    spotsByDisplay,           \* display id -> sequence of spots
    recycledSprites,          \* sequence of sprite handles
    pointerSprite,            \* what the pointer sprite was last told
    msgQueue,                 \* the looper's pending MSG_INACTIVITY_TIMEOUT delays
    looperPc,                 \* "idle", or "timeout" inside handleMessage
    vsyncRequests,            \* vsync pulses requested and not yet delivered
    now,                      \* systemTime(SYSTEM_TIME_MONOTONIC)
    pointerController,        \* the weak_ptr mHandler and mCallback hold: "live" or "expired"
    fdCallback,               \* whether the looper still has mCallback on the vsync fd
    mLock,                    \* the thread that holds mLock, or "none"
    threads,                  \* thread -> its call stack inside this file
    fx,                       \* the calls the last operation made on its collaborators
    op,                       \* the last operation and its arguments
    lmkd                      \* the LmkdConnection instance, its threads and its socket

vars == <<viewport, pointerX, pointerY, pointerAlpha, pointerFadeDirection,
          presentation, presentationChanged, pointerIconChanged,
          requestedPointerType, inactivityTimeout, animationPending,
          animationTime, animationFrameIndex, lastFrameUpdatedTime,
          resourcesDisplay, additionalMouseResources, animationResources,
          spotsByDisplay, recycledSprites, pointerSprite, msgQueue, looperPc,
          vsyncRequests, now, pointerController, fdCallback, mLock, threads,
          fx, op, lmkd>>

\* No call made yet: transactions opened, transactions open now, sprite calls
\* inside and outside a transaction, vsync requests, policy loads, messages sent.
NoFx == [txn |-> 0, depth |-> 0, sprite |-> 0, bare |-> 0, vsync |-> 0, loads |-> 0,
         sent |-> 0]

\* The state as one record, which the ...Locked operators below transform;
\* an operation is one critical section of mLock, so it is one step.
Cur ==
    [viewport |-> viewport, pointerX |-> pointerX, pointerY |-> pointerY,
     pointerAlpha |-> pointerAlpha, pointerFadeDirection |-> pointerFadeDirection,
     presentation |-> presentation, presentationChanged |-> presentationChanged,
     pointerIconChanged |-> pointerIconChanged,
     requestedPointerType |-> requestedPointerType,
     inactivityTimeout |-> inactivityTimeout, animationPending |-> animationPending,
     animationTime |-> animationTime, animationFrameIndex |-> animationFrameIndex,
     lastFrameUpdatedTime |-> lastFrameUpdatedTime,
     resourcesDisplay |-> resourcesDisplay,
     additionalMouseResources |-> additionalMouseResources,
     animationResources |-> animationResources,
     spotsByDisplay |-> spotsByDisplay, recycledSprites |-> recycledSprites,
     pointerSprite |-> pointerSprite, msgQueue |-> msgQueue, looperPc |-> looperPc,
     vsyncRequests |-> vsyncRequests, now |-> now,
     pointerController |-> pointerController, fdCallback |-> fdCallback,
     fx |-> NoFx]

\* The state after an operation that ended in w.
Apply(w, o) ==
    /\ viewport' = w.viewport
    /\ pointerX' = w.pointerX
    /\ pointerY' = w.pointerY
    /\ pointerAlpha' = w.pointerAlpha
    /\ pointerFadeDirection' = w.pointerFadeDirection
    /\ presentation' = w.presentation
    /\ presentationChanged' = w.presentationChanged
    /\ pointerIconChanged' = w.pointerIconChanged
    /\ requestedPointerType' = w.requestedPointerType
    /\ inactivityTimeout' = w.inactivityTimeout
    /\ animationPending' = w.animationPending
    /\ animationTime' = w.animationTime
    /\ animationFrameIndex' = w.animationFrameIndex
    /\ lastFrameUpdatedTime' = w.lastFrameUpdatedTime
    /\ resourcesDisplay' = w.resourcesDisplay
    /\ additionalMouseResources' = w.additionalMouseResources
    /\ animationResources' = w.animationResources
    /\ spotsByDisplay' = w.spotsByDisplay
    /\ recycledSprites' = w.recycledSprites
    /\ pointerSprite' = w.pointerSprite
    /\ msgQueue' = w.msgQueue
    /\ looperPc' = w.looperPc
    /\ vsyncRequests' = w.vsyncRequests
    /\ now' = w.now
    /\ pointerController' = w.pointerController
    /\ fdCallback' = w.fdCallback
    /\ UNCHANGED <<mLock, threads, lmkd>>
    /\ fx' = w.fx
    /\ op' = o

\* ------------------------------------------------------------ collaborators

\* SpriteController::openTransaction / closeTransaction.
openTransaction(w) == [w EXCEPT !.fx.txn = @ + 1, !.fx.depth = @ + 1]
closeTransaction(w) == [w EXCEPT !.fx.depth = @ - 1]

\* n calls on a sprite: counted apart when no transaction is open.
spriteCalls(w, n) ==
    IF w.fx.depth > 0 THEN [w EXCEPT !.fx.sprite = @ + n]
    ELSE [w EXCEPT !.fx.bare = @ + n]

\* Looper::removeMessages(mHandler, MSG_INACTIVITY_TIMEOUT).
removeInactivityTimeoutLocked(w) == [w EXCEPT !.msgQueue = <<>>]

\* A variant that sends the message without removing the pending one.
resetInactivityTimeoutLocked_NoRemove(w) ==
    LET timeout == IF w.inactivityTimeout = "SHORT"
                   THEN INACTIVITY_TIMEOUT_DELAY_TIME_SHORT
                   ELSE INACTIVITY_TIMEOUT_DELAY_TIME_NORMAL
    IN [w EXCEPT !.msgQueue = Append(@, timeout), !.fx.sent = @ + 1]

\* Looper::removeMessages, then sendMessageDelayed with the kind's delay.
resetInactivityTimeoutLocked(w) ==
    LET timeout == IF w.inactivityTimeout = "SHORT"
                   THEN INACTIVITY_TIMEOUT_DELAY_TIME_SHORT
                   ELSE INACTIVITY_TIMEOUT_DELAY_TIME_NORMAL
    IN [w EXCEPT !.msgQueue = Append(removeInactivityTimeoutLocked(w).msgQueue, timeout),
                 !.fx.sent = @ + 1]

\* A variant that requests a vsync whether or not one is pending.
startAnimationLocked_AlwaysRequests(w) ==
    [w EXCEPT !.animationPending = TRUE,
              !.animationTime = w.now,
              !.vsyncRequests = @ + 1,
              !.fx.vsync = @ + 1]

startAnimationLocked(w) ==
    IF ~w.animationPending
    THEN [w EXCEPT !.animationPending = TRUE,
                   !.animationTime = w.now,
                   !.vsyncRequests = @ + 1,
                   !.fx.vsync = @ + 1]
    ELSE w

\* ------------------------------------------------------------ bounds, position

\* A variant that takes the right and bottom edges as the last pixels.
getBoundsLocked_EdgeInclusive(w) ==
    [ok |-> IsValid(w.viewport),
     minX |-> Px(w.viewport.logicalLeft),
     minY |-> Px(w.viewport.logicalTop),
     maxX |-> Px(w.viewport.logicalRight),
     maxY |-> Px(w.viewport.logicalBottom)]

getBoundsLocked(w) ==
    [ok |-> IsValid(w.viewport),
     minX |-> Px(w.viewport.logicalLeft),
     minY |-> Px(w.viewport.logicalTop),
     maxX |-> Px(w.viewport.logicalRight - 1),
     maxY |-> Px(w.viewport.logicalBottom - 1)]

\* A variant that lets an animated icon go on from the frame index it finds.
updatePointerIconLocked_KeepsFrameIndex(w) ==
    IF w.presentation = "POINTER"
    THEN IF w.requestedPointerType = DefaultIconId
         THEN spriteCalls([w EXCEPT !.pointerSprite.icon = <<"pointerIcon">>], 1)
         ELSE IF w.requestedPointerType \in w.additionalMouseResources
              THEN LET a == IF w.requestedPointerType \in w.animationResources
                            THEN startAnimationLocked(
                                     [w EXCEPT !.lastFrameUpdatedTime = w.now])
                            ELSE w
                   IN spriteCalls(
                          [a EXCEPT !.pointerSprite.icon =
                                        <<"additional", w.requestedPointerType>>], 1)
              ELSE spriteCalls([w EXCEPT !.pointerSprite.icon = <<"pointerIcon">>], 1)
    ELSE spriteCalls([w EXCEPT !.pointerSprite.icon = <<"spotAnchor">>], 1)

\* The icon part of updatePointerLocked (lines 669-695).
updatePointerIconLocked(w) ==
    IF w.presentation = "POINTER"
    THEN IF w.requestedPointerType = DefaultIconId
         THEN spriteCalls([w EXCEPT !.pointerSprite.icon = <<"pointerIcon">>], 1)
         ELSE IF w.requestedPointerType \in w.additionalMouseResources
              THEN LET a == IF w.requestedPointerType \in w.animationResources
                            THEN startAnimationLocked(
                                     [w EXCEPT !.animationFrameIndex = 0,
                                               !.lastFrameUpdatedTime = w.now])
                            ELSE w
                   IN spriteCalls(
                          [a EXCEPT !.pointerSprite.icon =
                                        <<"additional", w.requestedPointerType>>], 1)
              ELSE spriteCalls([w EXCEPT !.pointerSprite.icon = <<"pointerIcon">>], 1)
    ELSE spriteCalls([w EXCEPT !.pointerSprite.icon = <<"spotAnchor">>], 1)

updatePointerLocked(w) ==
    IF ~IsValid(w.viewport) THEN w
    ELSE LET a == openTransaction(w)
             b == spriteCalls([a EXCEPT !.pointerSprite.x = w.pointerX,
                                        !.pointerSprite.y = w.pointerY,
                                        !.pointerSprite.displayId = w.viewport.displayId],
                              3)
             c == IF w.pointerAlpha > 0
                  THEN spriteCalls([b EXCEPT !.pointerSprite.alpha = w.pointerAlpha,
                                             !.pointerSprite.visible = TRUE], 2)
                  ELSE spriteCalls([b EXCEPT !.pointerSprite.visible = FALSE], 1)
             d == IF w.pointerIconChanged \/ w.presentationChanged
                  THEN [updatePointerIconLocked(c) EXCEPT !.pointerIconChanged = FALSE,
                                                          !.presentationChanged = FALSE]
                  ELSE c
         IN closeTransaction(d)

clampAxis(v, lo, hi) == IF v <= lo THEN lo ELSE IF v >= hi THEN hi ELSE v

\* A variant that does not ask whether there is a viewport.
setPositionLocked_NoViewportCheck(w, x, y) ==
    LET b == getBoundsLocked(w)
    IN updatePointerLocked([w EXCEPT !.pointerX = clampAxis(x, b.minX, b.maxX),
                                     !.pointerY = clampAxis(y, b.minY, b.maxY)])

setPositionLocked(w, x, y) ==
    LET b == getBoundsLocked(w)
    IN IF b.ok
       THEN updatePointerLocked([w EXCEPT !.pointerX = clampAxis(x, b.minX, b.maxX),
                                          !.pointerY = clampAxis(y, b.minY, b.maxY)])
       ELSE w


\* ------------------------------------------------------------ resources

\* mPolicy->loadAdditionalMouseResources: fills both tables.
loadAdditionalMouseResources(w) ==
    [w EXCEPT !.additionalMouseResources = @ \cup PolicyMouseIcons,
              !.animationResources = @ \cup PolicyAnimations,
              !.fx.loads = @ + 1]

loadResourcesLocked(w) ==
    IF ~IsValid(w.viewport) THEN w
    ELSE LET a == [w EXCEPT !.resourcesDisplay = w.viewport.displayId,
                            !.fx.loads = @ + 1,
                            !.additionalMouseResources = {},
                            !.animationResources = {}]
             b == IF w.presentation = "POINTER"
                  THEN loadAdditionalMouseResources(a) ELSE a
         IN [b EXCEPT !.pointerIconChanged = TRUE]

\* ------------------------------------------------------------ spots

\* A Spot as its constructor leaves it: alpha 1, no icon shown yet.
NewSpot(id, sprite) ==
    [id |-> id, alpha |-> AlphaOne, sprite |-> sprite,
     x |-> 0, y |-> 0, lastIcon |-> "none"]

Displays(w) == DOMAIN w.spotsByDisplay

\* The sprite handles some spot or the pool holds; handle 0 is the pointer's.
HandlesInUse(w, spots) ==
    {0} \cup {w.recycledSprites[i] : i \in 1..Len(w.recycledSprites)}
        \cup {spots[i].sprite : i \in 1..Len(spots)}
        \cup UNION {{w.spotsByDisplay[d][i].sprite : i \in 1..Len(w.spotsByDisplay[d])}
                    : d \in Displays(w)}

\* SpriteController::createSprite: a handle nothing else holds.
createSprite(w, spots) ==
    CHOOSE h \in 1..(Cardinality(HandlesInUse(w, spots)) + 1) :
        /\ h \notin HandlesInUse(w, spots)
        /\ \A g \in 1..(h - 1) : g \in HandlesInUse(w, spots)

RemoveAt(seq, i) == SubSeq(seq, 1, i - 1) \o SubSeq(seq, i + 1, Len(seq))

\* The index of the spot with this id, 0 when there is none.
getSpot(id, spots) ==
    IF \E i \in 1..Len(spots) : spots[i].id = id
    THEN CHOOSE i \in 1..Len(spots) :
             spots[i].id = id /\ \A j \in 1..(i - 1) : spots[j].id # id
    ELSE 0

\* A variant that lets the pool grow one past its cap.
releaseSpotLocked_OverCap(w, spot) ==
    LET a == spriteCalls(w, 1)
    IN IF Len(a.recycledSprites) <= MAX_RECYCLED_SPRITES
       THEN [a EXCEPT !.recycledSprites = Append(@, spot.sprite)]
       ELSE a

releaseSpotLocked(w, spot) ==
    LET a == spriteCalls(w, 1)
    IN IF Len(a.recycledSprites) < MAX_RECYCLED_SPRITES
       THEN [a EXCEPT !.recycledSprites = Append(@, spot.sprite)]
       ELSE a

\* A variant that gives up the first spot, fading or not.
evictIndex_AlwaysFirst(spots) == IF spots = <<>> THEN 0 ELSE 1

\* The spot a full list gives up: the first fading one, else the first.
evictIndex(spots) ==
    LET i == getSpot(INVALID_ID, spots) IN IF i # 0 THEN i ELSE 1

RECURSIVE makeRoomLocked_OffByOne(_, _)
\* A variant whose loop stops at cap spots instead of below cap.
makeRoomLocked_OffByOne(r, cap) ==
    IF Len(r.spots) > cap
    THEN makeRoomLocked_OffByOne(
             [w |-> releaseSpotLocked(r.w, r.spots[evictIndex(r.spots)]),
              spots |-> RemoveAt(r.spots, evictIndex(r.spots))], cap)
    ELSE r

RECURSIVE makeRoomLocked(_, _)
\* The while loop of createAndAddSpotLocked; r is [w, spots].
makeRoomLocked(r, cap) ==
    IF Len(r.spots) >= cap
    THEN makeRoomLocked([w |-> releaseSpotLocked(r.w, r.spots[evictIndex(r.spots)]),
                         spots |-> RemoveAt(r.spots, evictIndex(r.spots))], cap)
    ELSE r

\* A variant that hands out the pool's last handle and leaves it in the pool.
createAndAddSpotLocked_KeepsPooled(w, id, spots) ==
    LET r == makeRoomLocked([w |-> w, spots |-> spots], MAX_SPOTS)
        pooled == r.w.recycledSprites # <<>>
        sprite == IF pooled
                  THEN r.w.recycledSprites[Len(r.w.recycledSprites)]
                  ELSE createSprite(r.w, r.spots)
    IN [w |-> r.w, spots |-> Append(r.spots, NewSpot(id, sprite))]

\* Returns [w, spots]; the new spot is the last of spots.
createAndAddSpotLocked(w, id, spots) ==
    LET r == makeRoomLocked([w |-> w, spots |-> spots], MAX_SPOTS)
        pooled == r.w.recycledSprites # <<>>
        sprite == IF pooled
                  THEN r.w.recycledSprites[Len(r.w.recycledSprites)]
                  ELSE createSprite(r.w, r.spots)
        a == IF pooled
             THEN [r.w EXCEPT !.recycledSprites = SubSeq(@, 1, Len(@) - 1)]
             ELSE r.w
    IN [w |-> a, spots |-> Append(r.spots, NewSpot(id, sprite))]

\* Spot::updateSprite: returns [w, spot].
updateSprite(w, spot, icon, x, y) ==
    LET a == spriteCalls(w, 5)
    IN IF icon # spot.lastIcon
       THEN [w |-> spriteCalls(a, 2),
             spot |-> [spot EXCEPT !.x = x, !.y = y, !.lastIcon = icon]]
       ELSE [w |-> a, spot |-> [spot EXCEPT !.x = x, !.y = y]]

\* A variant that marks the spot without starting the animation.
fadeOutAndReleaseSpotLocked_NoAnimation(w, spot) ==
    IF spot.id # INVALID_ID
    THEN [w |-> w, spot |-> [spot EXCEPT !.id = INVALID_ID]]
    ELSE [w |-> w, spot |-> spot]

\* Returns [w, spot].
fadeOutAndReleaseSpotLocked(w, spot) ==
    IF spot.id # INVALID_ID
    THEN [w |-> startAnimationLocked(w), spot |-> [spot EXCEPT !.id = INVALID_ID]]
    ELSE [w |-> w, spot |-> spot]

RECURSIVE fadeOutSpotList(_, _, _)
\* fadeOutAndReleaseSpotLocked on spots[i..]: returns [w, spots].
fadeOutSpotList(w, spots, i) ==
    IF i > Len(spots) THEN [w |-> w, spots |-> spots]
    ELSE LET r == fadeOutAndReleaseSpotLocked(w, spots[i])
         IN fadeOutSpotList(r.w, [spots EXCEPT ![i] = r.spot], i + 1)

Min(S) == CHOOSE m \in S : \A n \in S : m <= n

RECURSIVE fadeOutDisplays(_, _)
fadeOutDisplays(w, ds) ==
    IF ds = {} THEN w
    ELSE LET d == Min(ds)
             r == fadeOutSpotList(w, w.spotsByDisplay[d], 1)
         IN fadeOutDisplays([r.w EXCEPT !.spotsByDisplay[d] = r.spots], ds \ {d})

fadeOutAndReleaseAllSpotsLocked(w) == fadeOutDisplays(w, Displays(w))

RECURSIVE addOrMoveSpots(_, _, _)
\* The first loop of setSpots, lowest id first; r is [w, spots].
addOrMoveSpots(r, ids, coords) ==
    IF ids = {} THEN r
    ELSE LET id == Min(ids)
             c == coords[id]
             icon == IF c.pressure > 0 THEN "spotTouch" ELSE "spotHover"
             found == getSpot(id, r.spots)
             made == IF found = 0 THEN createAndAddSpotLocked(r.w, id, r.spots) ELSE r
             i == IF found = 0 THEN Len(made.spots) ELSE found
             u == updateSprite(made.w, made.spots[i], icon, c.x, c.y)
         IN addOrMoveSpots([w |-> u.w, spots |-> [made.spots EXCEPT ![i] = u.spot]],
                           ids \ {id}, coords)

RECURSIVE removeGoneSpots_SkipsFirst(_, _, _)
\* A variant whose loop starts at the second spot of the list.
removeGoneSpots_SkipsFirst(r, ids, i) ==
    IF i > Len(r.spots) THEN r
    ELSE IF i > 1 /\ r.spots[i].id # INVALID_ID /\ r.spots[i].id \notin ids
         THEN LET f == fadeOutAndReleaseSpotLocked(r.w, r.spots[i])
              IN removeGoneSpots_SkipsFirst(
                     [w |-> f.w, spots |-> [r.spots EXCEPT ![i] = f.spot]], ids, i + 1)
         ELSE removeGoneSpots_SkipsFirst(r, ids, i + 1)

RECURSIVE removeGoneSpots(_, _, _)
\* The second loop of setSpots; r is [w, spots].
removeGoneSpots(r, ids, i) ==
    IF i > Len(r.spots) THEN r
    ELSE IF r.spots[i].id # INVALID_ID /\ r.spots[i].id \notin ids
         THEN LET f == fadeOutAndReleaseSpotLocked(r.w, r.spots[i])
              IN removeGoneSpots([w |-> f.w, spots |-> [r.spots EXCEPT ![i] = f.spot]],
                                 ids, i + 1)
         ELSE removeGoneSpots(r, ids, i + 1)

PutDisplay(m, d, spots) ==
    [k \in DOMAIN m \cup {d} |-> IF k = d THEN spots ELSE m[k]]

setSpotsLocked(w, coords, ids, displayId) ==
    IF ~IsValid(w.viewport) THEN w
    ELSE LET newSpots == IF displayId \in Displays(w)
                         THEN w.spotsByDisplay[displayId] ELSE <<>>
             a == addOrMoveSpots([w |-> openTransaction(w), spots |-> newSpots],
                                 ids, coords)
             b == removeGoneSpots(a, ids, 1)
             c == closeTransaction(b.w)
         IN [c EXCEPT !.spotsByDisplay = PutDisplay(@, displayId, b.spots)]


\* ------------------------------------------------------------ animation

\* float(frameDelay) / duration, in alpha units.
FadeStep(frameDelay, duration) == (frameDelay * AlphaOne) \div duration

RECURSIVE fadeSpotList_RemovesBelowZero(_, _, _)
\* A variant that keeps a spot whose alpha has come to exactly 0.
fadeSpotList_RemovesBelowZero(r, i, frameDelay) ==
    IF i > Len(r.spots) THEN r
    ELSE LET spot == r.spots[i]
             alpha == spot.alpha - FadeStep(frameDelay, SPOT_FADE_DURATION)
         IN IF spot.id = INVALID_ID
            THEN IF alpha < 0
                 THEN fadeSpotList_RemovesBelowZero(
                          [w |-> releaseSpotLocked(r.w, spot),
                           spots |-> RemoveAt(r.spots, i),
                           keep |-> r.keep], i, frameDelay)
                 ELSE fadeSpotList_RemovesBelowZero(
                          [w |-> spriteCalls(r.w, 1),
                           spots |-> [r.spots EXCEPT ![i].alpha = alpha],
                           keep |-> TRUE], i + 1, frameDelay)
            ELSE fadeSpotList_RemovesBelowZero(r, i + 1, frameDelay)

RECURSIVE fadeSpotList(_, _, _)
\* The inner loop of doFadingAnimationLocked over one display's list;
\* r is [w, spots, keep], i the index the loop is at.
fadeSpotList(r, i, frameDelay) ==
    IF i > Len(r.spots) THEN r
    ELSE LET spot == r.spots[i]
             alpha == spot.alpha - FadeStep(frameDelay, SPOT_FADE_DURATION)
         IN IF spot.id = INVALID_ID
            THEN IF alpha <= 0
                 THEN fadeSpotList([w |-> releaseSpotLocked(r.w, spot),
                                    spots |-> RemoveAt(r.spots, i),
                                    keep |-> r.keep], i, frameDelay)
                 ELSE fadeSpotList([w |-> spriteCalls(r.w, 1),
                                    spots |-> [r.spots EXCEPT ![i].alpha = alpha],
                                    keep |-> TRUE], i + 1, frameDelay)
            ELSE fadeSpotList(r, i + 1, frameDelay)

DropDisplay(m, d) == [k \in DOMAIN m \ {d} |-> m[k]]

RECURSIVE fadeSpotDisplays(_, _, _)
\* The outer loop, in the map's order; r is [w, keep].
fadeSpotDisplays(r, ds, frameDelay) ==
    IF ds = {} THEN r
    ELSE LET d == Min(ds)
             l == fadeSpotList([w |-> r.w, spots |-> r.w.spotsByDisplay[d],
                                keep |-> r.keep], 1, frameDelay)
             m == IF Len(l.spots) = 0
                  THEN DropDisplay(l.w.spotsByDisplay, d)
                  ELSE [l.w.spotsByDisplay EXCEPT ![d] = l.spots]
         IN fadeSpotDisplays([w |-> [l.w EXCEPT !.spotsByDisplay = m], keep |-> l.keep],
                             ds \ {d}, frameDelay)

\* A variant whose fade in ends at whatever value the last step reached.
fadePointerLocked_NoUpperClamp(w, frameDelay) ==
    LET out == w.pointerAlpha - FadeStep(frameDelay, POINTER_FADE_DURATION)
        in == w.pointerAlpha + FadeStep(frameDelay, POINTER_FADE_DURATION)
    IN IF w.pointerFadeDirection < 0
       THEN IF out <= 0
            THEN [w |-> updatePointerLocked([w EXCEPT !.pointerAlpha = 0,
                                                      !.pointerFadeDirection = 0]),
                  keep |-> FALSE]
            ELSE [w |-> updatePointerLocked([w EXCEPT !.pointerAlpha = out]),
                  keep |-> TRUE]
       ELSE IF w.pointerFadeDirection > 0
            THEN IF in >= AlphaOne
                 THEN [w |-> updatePointerLocked([w EXCEPT !.pointerAlpha = in,
                                                           !.pointerFadeDirection = 0]),
                       keep |-> FALSE]
                 ELSE [w |-> updatePointerLocked([w EXCEPT !.pointerAlpha = in]),
                       keep |-> TRUE]
            ELSE [w |-> w, keep |-> FALSE]

\* A variant whose fade out stops only below 0, not at 0.
fadePointerLocked_StopsBelowZero(w, frameDelay) ==
    LET out == w.pointerAlpha - FadeStep(frameDelay, POINTER_FADE_DURATION)
    IN IF w.pointerFadeDirection < 0
       THEN IF out < 0
            THEN [w |-> updatePointerLocked([w EXCEPT !.pointerAlpha = 0,
                                                      !.pointerFadeDirection = 0]),
                  keep |-> FALSE]
            ELSE [w |-> updatePointerLocked([w EXCEPT !.pointerAlpha = out]),
                  keep |-> TRUE]
       ELSE [w |-> w, keep |-> FALSE]

\* The pointer part of doFadingAnimationLocked (lines 549-568): [w, keep].
fadePointerLocked(w, frameDelay) ==
    LET out == w.pointerAlpha - FadeStep(frameDelay, POINTER_FADE_DURATION)
        in == w.pointerAlpha + FadeStep(frameDelay, POINTER_FADE_DURATION)
    IN IF w.pointerFadeDirection < 0
       THEN IF out <= 0
            THEN [w |-> updatePointerLocked([w EXCEPT !.pointerAlpha = 0,
                                                      !.pointerFadeDirection = 0]),
                  keep |-> FALSE]
            ELSE [w |-> updatePointerLocked([w EXCEPT !.pointerAlpha = out]),
                  keep |-> TRUE]
       ELSE IF w.pointerFadeDirection > 0
            THEN IF in >= AlphaOne
                 THEN [w |-> updatePointerLocked([w EXCEPT !.pointerAlpha = AlphaOne,
                                                           !.pointerFadeDirection = 0]),
                       keep |-> FALSE]
                 ELSE [w |-> updatePointerLocked([w EXCEPT !.pointerAlpha = in]),
                       keep |-> TRUE]
            ELSE [w |-> w, keep |-> FALSE]

\* Returns [w, keep].
doFadingAnimationLocked(w, timestamp) ==
    LET frameDelay == timestamp - w.animationTime
        p == fadePointerLocked(w, frameDelay)
    IN fadeSpotDisplays(p, Displays(p.w), frameDelay)

\* A variant that flips the frame as soon as one duration has passed.
doBitmapAnimationLocked_AtDuration(w, timestamp) ==
    IF w.requestedPointerType \notin w.animationResources
    THEN [w |-> w, keep |-> FALSE]
    ELSE IF timestamp - w.lastFrameUpdatedTime >= DurationPerFrame
         THEN LET incr == (timestamp - w.lastFrameUpdatedTime) \div DurationPerFrame
                  index == (w.animationFrameIndex + incr)
                               % FramesOf(w.requestedPointerType)
                  a == openTransaction(w)
                  b == spriteCalls(
                           [a EXCEPT !.animationFrameIndex = index,
                                     !.lastFrameUpdatedTime = @ + DurationPerFrame * incr,
                                     !.pointerSprite.icon =
                                         <<"frame", w.requestedPointerType, index>>], 1)
              IN [w |-> closeTransaction(b), keep |-> TRUE]
         ELSE [w |-> w, keep |-> TRUE]

\* Returns [w, keep].
doBitmapAnimationLocked(w, timestamp) ==
    IF w.requestedPointerType \notin w.animationResources
    THEN [w |-> w, keep |-> FALSE]
    ELSE IF timestamp - w.lastFrameUpdatedTime > DurationPerFrame
         THEN LET incr == (timestamp - w.lastFrameUpdatedTime) \div DurationPerFrame
                  index == (w.animationFrameIndex + incr)
                               % FramesOf(w.requestedPointerType)
                  a == openTransaction(w)
                  b == spriteCalls(
                           [a EXCEPT !.animationFrameIndex = index,
                                     !.lastFrameUpdatedTime = @ + DurationPerFrame * incr,
                                     !.pointerSprite.icon =
                                         <<"frame", w.requestedPointerType, index>>], 1)
              IN [w |-> closeTransaction(b), keep |-> TRUE]
         ELSE [w |-> w, keep |-> TRUE]

\* A variant that never asks for the next pulse.
doAnimateLocked_OneShot(w, timestamp) ==
    LET f == doFadingAnimationLocked([w EXCEPT !.animationPending = FALSE], timestamp)
        b == doBitmapAnimationLocked(f.w, timestamp)
    IN b.w

\* A variant that re-arms for the fades only, not for the bitmap animation.
doAnimateLocked_FadingOnly(w, timestamp) ==
    LET f == doFadingAnimationLocked([w EXCEPT !.animationPending = FALSE], timestamp)
        b == doBitmapAnimationLocked(f.w, timestamp)
    IN IF f.keep THEN startAnimationLocked(b.w) ELSE b.w

doAnimateLocked(w, timestamp) ==
    LET f == doFadingAnimationLocked([w EXCEPT !.animationPending = FALSE], timestamp)
        b == doBitmapAnimationLocked(f.w, timestamp)
    IN IF f.keep \/ b.keep THEN startAnimationLocked(b.w) ELSE b.w

\* ------------------------------------------------------------ operations

\* A variant whose IMMEDIATE branch leaves the fade direction as it was.
fadeLocked_KeepsDirection(w, transition) ==
    LET a == removeInactivityTimeoutLocked(w)
    IN IF transition = "IMMEDIATE"
       THEN updatePointerLocked([a EXCEPT !.pointerAlpha = 0])
       ELSE startAnimationLocked([a EXCEPT !.pointerFadeDirection = -1])

\* A variant whose IMMEDIATE branch arms the animation loop as well.
fadeLocked_ImmediateArms(w, transition) ==
    LET a == removeInactivityTimeoutLocked(w)
    IN IF transition = "IMMEDIATE"
       THEN startAnimationLocked(
                updatePointerLocked([a EXCEPT !.pointerFadeDirection = 0,
                                              !.pointerAlpha = 0]))
       ELSE startAnimationLocked([a EXCEPT !.pointerFadeDirection = -1])

fadeLocked(w, transition) ==
    LET a == removeInactivityTimeoutLocked(w)
    IN IF transition = "IMMEDIATE"
       THEN updatePointerLocked([a EXCEPT !.pointerFadeDirection = 0,
                                          !.pointerAlpha = 0])
       ELSE startAnimationLocked([a EXCEPT !.pointerFadeDirection = -1])

\* A variant whose gradual unfade sets the direction and requests no tick.
unfadeLocked_GradualNoAnimation(w, transition) ==
    LET a == resetInactivityTimeoutLocked(w)
    IN IF transition = "IMMEDIATE"
       THEN updatePointerLocked([a EXCEPT !.pointerFadeDirection = 0,
                                          !.pointerAlpha = AlphaOne])
       ELSE [a EXCEPT !.pointerFadeDirection = 1]

unfadeLocked(w, transition) ==
    LET a == resetInactivityTimeoutLocked(w)
    IN IF transition = "IMMEDIATE"
       THEN updatePointerLocked([a EXCEPT !.pointerFadeDirection = 0,
                                          !.pointerAlpha = AlphaOne])
       ELSE startAnimationLocked([a EXCEPT !.pointerFadeDirection = 1])

\* A variant without the early return on a zero delta.
moveLocked_NoZeroCheck(w, deltaX, deltaY) ==
    setPositionLocked(w, w.pointerX + deltaX, w.pointerY + deltaY)

moveLocked(w, deltaX, deltaY) ==
    IF deltaX = 0 /\ deltaY = 0 THEN w
    ELSE setPositionLocked(w, w.pointerX + deltaX, w.pointerY + deltaY)

\* A variant that fades out the spots of the pointer's display only.
setPresentationLocked_OwnDisplayOnly(w, p) ==
    IF w.presentation = p THEN w
    ELSE LET a == [w EXCEPT !.presentation = p, !.presentationChanged = TRUE]
         IN IF ~IsValid(a.viewport) THEN a
            ELSE IF p = "POINTER"
                 THEN LET b == IF a.additionalMouseResources = {}
                               THEN loadAdditionalMouseResources(a) ELSE a
                      IN updatePointerLocked(
                             fadeOutDisplays(b, Displays(b) \cap {b.viewport.displayId}))
                 ELSE a

setPresentationLocked(w, p) ==
    IF w.presentation = p THEN w
    ELSE LET a == [w EXCEPT !.presentation = p, !.presentationChanged = TRUE]
         IN IF ~IsValid(a.viewport) THEN a
            ELSE IF p = "POINTER"
                 THEN LET b == IF a.additionalMouseResources = {}
                               THEN loadAdditionalMouseResources(a) ELSE a
                      IN updatePointerLocked(fadeOutAndReleaseAllSpotsLocked(b))
                 ELSE a

clearSpotsLocked(w) ==
    IF ~IsValid(w.viewport) THEN w ELSE fadeOutAndReleaseAllSpotsLocked(w)

\* A variant that re-arms the timer whatever the kind.
setInactivityTimeoutLocked_AlwaysResets(w, kind) ==
    resetInactivityTimeoutLocked([w EXCEPT !.inactivityTimeout = kind])

setInactivityTimeoutLocked(w, kind) ==
    IF w.inactivityTimeout # kind
    THEN resetInactivityTimeoutLocked([w EXCEPT !.inactivityTimeout = kind])
    ELSE w

reloadPointerResourcesLocked(w) == updatePointerLocked(loadResourcesLocked(w))

\* The inverse of a rotation (lines 419-434), on a pixel-centre position.
\* A variant whose 270 degree case subtracts from the other side's length.
undoRotation_WrongSide(v, p) ==
    CASE v.orientation = 90 -> [x |-> Px(v.deviceHeight) - p.y, y |-> p.x]
      [] v.orientation = 180 -> [x |-> Px(v.deviceWidth) - p.x,
                                 y |-> Px(v.deviceHeight) - p.y]
      [] v.orientation = 270 -> [x |-> p.y, y |-> Px(v.deviceHeight) - p.x]
      [] OTHER -> p

undoRotation(v, p) ==
    CASE v.orientation = 90 -> [x |-> Px(v.deviceHeight) - p.y, y |-> p.x]
      [] v.orientation = 180 -> [x |-> Px(v.deviceWidth) - p.x,
                                 y |-> Px(v.deviceHeight) - p.y]
      [] v.orientation = 270 -> [x |-> p.y, y |-> Px(v.deviceWidth) - p.x]
      [] OTHER -> p

\* A variant that rotates within the display's orientation-0 size.
performRotation_UnrotatedSize(v, p) ==
    CASE v.orientation = 90 ->
             [x |-> p.y, y |-> Px(getNonRotatedSize(v).height) - p.x]
      [] v.orientation = 180 ->
             [x |-> Px(getNonRotatedSize(v).width) - p.x,
              y |-> Px(getNonRotatedSize(v).height) - p.y]
      [] v.orientation = 270 ->
             [x |-> Px(getNonRotatedSize(v).width) - p.y, y |-> p.x]
      [] OTHER -> p

\* The rotation (lines 437-452).
performRotation(v, p) ==
    CASE v.orientation = 90 -> [x |-> p.y, y |-> Px(v.deviceHeight) - p.x]
      [] v.orientation = 180 -> [x |-> Px(v.deviceWidth) - p.x,
                                 y |-> Px(v.deviceHeight) - p.y]
      [] v.orientation = 270 -> [x |-> Px(v.deviceWidth) - p.y, y |-> p.x]
      [] OTHER -> p

\* A variant of the first branch that leaves the spots alone.
recenterLocked_KeepsSpots(w) ==
    LET b == getBoundsLocked(w)
    IN IF b.ok
       THEN loadResourcesLocked([w EXCEPT !.pointerX = (b.minX + b.maxX) \div 2,
                                          !.pointerY = (b.minY + b.maxY) \div 2])
       ELSE [w EXCEPT !.pointerX = 0, !.pointerY = 0]

\* The first branch of setDisplayViewport (lines 398-409); the viewport is set.
recenterLocked(w) ==
    LET b == getBoundsLocked(w)
        a == IF b.ok
             THEN loadResourcesLocked([w EXCEPT !.pointerX = (b.minX + b.maxX) \div 2,
                                                !.pointerY = (b.minY + b.maxY) \div 2])
             ELSE [w EXCEPT !.pointerX = 0, !.pointerY = 0]
    IN fadeOutAndReleaseAllSpotsLocked(a)

\* The second branch (lines 411-457).
rotateLocked(w, oldViewport) ==
    LET p == performRotation(w.viewport,
                 undoRotation(oldViewport, [x |-> w.pointerX + HalfPx,
                                            y |-> w.pointerY + HalfPx]))
    IN [w EXCEPT !.pointerX = p.x - HalfPx, !.pointerY = p.y - HalfPx]

\* A variant that leaves the sprite as it was after a change of viewport.
setDisplayViewportLocked_NoPush(w, v) ==
    IF v = w.viewport THEN w
    ELSE LET oldViewport == w.viewport
             a == [w EXCEPT !.viewport = v]
             old == getNonRotatedSize(oldViewport)
             new == getNonRotatedSize(v)
         IN IF \/ oldViewport.displayId # v.displayId
               \/ old.width # new.width
               \/ old.height # new.height
            THEN recenterLocked(a)
            ELSE IF oldViewport.orientation # v.orientation
                 THEN rotateLocked(a, oldViewport)
                 ELSE a

\* A variant that compares the device sizes as supplied, turned or not.
setDisplayViewportLocked_RawSize(w, v) ==
    IF v = w.viewport THEN w
    ELSE LET oldViewport == w.viewport
             a == [w EXCEPT !.viewport = v]
             b == IF \/ oldViewport.displayId # v.displayId
                     \/ oldViewport.deviceWidth # v.deviceWidth
                     \/ oldViewport.deviceHeight # v.deviceHeight
                  THEN recenterLocked(a)
                  ELSE IF oldViewport.orientation # v.orientation
                       THEN rotateLocked(a, oldViewport)
                       ELSE a
         IN updatePointerLocked(b)

setDisplayViewportLocked(w, v) ==
    IF v = w.viewport THEN w
    ELSE LET oldViewport == w.viewport
             a == [w EXCEPT !.viewport = v]
             old == getNonRotatedSize(oldViewport)
             new == getNonRotatedSize(v)
             b == IF \/ oldViewport.displayId # v.displayId
                     \/ old.width # new.width
                     \/ old.height # new.height
                  THEN recenterLocked(a)
                  ELSE IF oldViewport.orientation # v.orientation
                       THEN rotateLocked(a, oldViewport)
                       ELSE a
         IN updatePointerLocked(b)

updatePointerIconOp(w, iconId) ==
    IF w.requestedPointerType # iconId
    THEN updatePointerLocked([w EXCEPT !.requestedPointerType = iconId,
                                       !.presentationChanged = TRUE])
    ELSE w

setCustomPointerIconLocked(w) ==
    updatePointerLocked([w EXCEPT !.additionalMouseResources = @ \cup {CustomIconId},
                                  !.requestedPointerType = CustomIconId,
                                  !.presentationChanged = TRUE])


\* ------------------------------------------------------------ callbacks, destruction

\* A variant that runs the timeout without asking whether the controller lives.
handleMessage_NoExpiryCheck(w) == fadeLocked(w, "GRADUAL")

\* MessageHandler::handleMessage (lines 483-496), MSG_INACTIVITY_TIMEOUT.
handleMessage(w) ==
    IF w.pointerController = "expired" THEN w
    ELSE fadeLocked(w, "GRADUAL")

\* LooperCallback::handleEvent (lines 498-531); the pulse it reads carries
\* the time elapsed after the clock reading of the request.
handleEvent(w, events, elapsed) ==
    IF w.pointerController = "expired" THEN [w EXCEPT !.fdCallback = FALSE]
    ELSE IF events \in {"EVENT_ERROR", "EVENT_HANGUP"}
         THEN [w EXCEPT !.fdCallback = FALSE]
         ELSE IF events # "EVENT_INPUT" THEN w
              ELSE doAnimateLocked([w EXCEPT !.vsyncRequests = @ - 1,
                                             !.now = w.now + elapsed],
                                   w.now + elapsed)

\* ~PointerController (lines 105-121): the handler's messages leave the
\* looper, the spots and the pool are dropped, the weak pointers expire.
destroyLocked(w) ==
    [w EXCEPT !.msgQueue = <<>>,
              !.spotsByDisplay = <<>>,
              !.recycledSprites = <<>>,
              !.pointerController = "expired"]

\* ------------------------------------------------------------ actions

Move(deltaX, deltaY) ==
    Apply(moveLocked(Cur, deltaX, deltaY), Op("move", deltaX, deltaY))

SetPosition(x, y) ==
    Apply(setPositionLocked(Cur, x, y), Op("setPosition", x, y))

Fade(transition) ==
    Apply(fadeLocked(Cur, transition), Op("fade", transition, 0))

Unfade(transition) ==
    Apply(unfadeLocked(Cur, transition), Op("unfade", transition, 0))

SetPresentation(p) ==
    Apply(setPresentationLocked(Cur, p), Op("setPresentation", p, 0))

SetSpots(coords, ids, displayId) ==
    Apply(setSpotsLocked(Cur, coords, ids, displayId),
          [name |-> "setSpots", a |-> ids, b |-> displayId, coords |-> coords])

ClearSpots ==
    Apply(clearSpotsLocked(Cur), Op("clearSpots", 0, 0))

SetInactivityTimeout(kind) ==
    Apply(setInactivityTimeoutLocked(Cur, kind), Op("setInactivityTimeout", kind, 0))

ReloadPointerResources ==
    Apply(reloadPointerResourcesLocked(Cur), Op("reloadPointerResources", 0, 0))

\* The viewport and position a setDisplayViewport call found, and those the
\* call before it found when that was a setDisplayViewport too.
Found ==
    [viewport |-> viewport, x |-> pointerX, y |-> pointerY,
     before |-> IF op.name = "setDisplayViewport"
                THEN [valid |-> TRUE, viewport |-> op.from.viewport,
                      x |-> op.from.x, y |-> op.from.y]
                ELSE [valid |-> FALSE, viewport |-> NoViewport, x |-> 0, y |-> 0]]

SetDisplayViewport(v) ==
    Apply(setDisplayViewportLocked(Cur, v),
          [name |-> "setDisplayViewport", a |-> v, b |-> 0, from |-> Found])

UpdatePointerIcon(iconId) ==
    Apply(updatePointerIconOp(Cur, iconId), Op("updatePointerIcon", iconId, 0))

SetCustomPointerIcon ==
    Apply(setCustomPointerIconLocked(Cur), Op("setCustomPointerIcon", 0, 0))

\* The looper takes the due MSG_INACTIVITY_TIMEOUT off its queue and enters
\* MessageHandler::handleMessage, which has yet to take the lock.
DeliverTimeout ==
    /\ looperPc = "idle"
    /\ msgQueue # <<>>
    /\ Apply([Cur EXCEPT !.msgQueue = Tail(@), !.looperPc = "timeout"],
             Op("handleMessage", 0, 0))

\* handleMessage -> doInactivityTimeout -> fade(GRADUAL), under the lock,
\* or nothing when the controller is gone.
DoInactivityTimeout ==
    /\ looperPc = "timeout"
    /\ Apply(handleMessage([Cur EXCEPT !.looperPc = "idle"]),
             Op(IF pointerController = "live" THEN "doInactivityTimeout"
                ELSE "handleMessage", 0, 0))

\* LooperCallback::handleEvent reads a vsync pulse stamped elapsed after the
\* request and calls doAnimate; once the controller is gone, whatever the
\* looper reports on the fd only takes the callback off it.
DoAnimate(elapsed) ==
    /\ looperPc = "idle"
    /\ fdCallback
    /\ pointerController = "live" => (vsyncRequests > 0 /\ now + elapsed <= MaxTime)
    /\ Apply(handleEvent(Cur, "EVENT_INPUT", elapsed),
             IF pointerController = "live" THEN Op("doAnimate", elapsed, 0)
             ELSE Op("handleEvent", "EVENT_INPUT", 0))

\* handleEvent for what else the looper may report on the fd.
HandleEvent(events) ==
    /\ looperPc = "idle"
    /\ fdCallback
    /\ Apply(handleEvent(Cur, events, 0), Op("handleEvent", events, 0))

\* The last shared_ptr is dropped: ~PointerController runs.
Destroy ==
    /\ pointerController = "live"
    /\ Apply(destroyLocked(Cur), Op("destroy", 0, 0))

\* ------------------------------------------------------------ the state lock

\* The threads that enter this file: two callers of the public operations
\* and the looper thread, which runs the two callbacks.
Threads == {"reader", "policy", "looper"}

\* What a function does, in source order: "lock" is its AutoMutex _l(mLock),
\* "touch" a read or write of mLocked or of a Spot, any other step a call
\* of the function of that name.

\* The public operations (lines 123-481).
PublicCode(f) ==
    CASE f = "getBounds" -> <<"lock", "getBoundsLocked">>
      [] f = "move" -> <<"lock", "touch", "setPositionLocked">>
      [] f = "setButtonState" -> <<"lock", "touch">>
      [] f = "getButtonState" -> <<"lock", "touch">>
      [] f = "setPosition" -> <<"lock", "setPositionLocked">>
      [] f = "getPosition" -> <<"lock", "touch">>
      [] f = "getDisplayId" -> <<"lock", "touch">>
      [] f = "fade" -> <<"lock", "removeInactivityTimeoutLocked", "touch",
                         "updatePointerLocked", "touch", "startAnimationLocked">>
      [] f = "unfade" -> <<"lock", "resetInactivityTimeoutLocked", "touch",
                           "updatePointerLocked", "touch", "startAnimationLocked">>
      [] f = "setPresentation" -> <<"lock", "touch", "fadeOutAndReleaseAllSpotsLocked",
                                    "updatePointerLocked">>
      [] f = "setSpots" -> <<"lock", "touch", "getSpot", "createAndAddSpotLocked",
                             "updateSprite", "touch", "fadeOutAndReleaseSpotLocked",
                             "touch">>
      [] f = "clearSpots" -> <<"lock", "touch", "fadeOutAndReleaseAllSpotsLocked">>
      [] f = "setInactivityTimeout" -> <<"lock", "touch", "resetInactivityTimeoutLocked">>
      [] f = "reloadPointerResources" -> <<"lock", "loadResourcesLocked",
                                           "updatePointerLocked">>
      [] f = "setDisplayViewport" -> <<"lock", "touch", "getBoundsLocked", "touch",
                                       "loadResourcesLocked",
                                       "fadeOutAndReleaseAllSpotsLocked", "touch",
                                       "updatePointerLocked">>
      [] f = "updatePointerIcon" -> <<"lock", "touch", "updatePointerLocked">>
      [] f = "setCustomPointerIcon" -> <<"lock", "touch", "updatePointerLocked">>

PublicOps ==
    {"getBounds", "move", "setButtonState", "getButtonState", "setPosition",
     "getPosition", "getDisplayId", "fade", "unfade", "setPresentation", "setSpots",
     "clearSpots", "setInactivityTimeout", "reloadPointerResources",
     "setDisplayViewport", "updatePointerIcon", "setCustomPointerIcon"}

\* A variant whose doInactivityTimeout takes the lock before it calls fade.
LooperCode_TimeoutLocks(f) ==
    CASE f = "handleMessage" -> <<"doInactivityTimeout">>
      [] f = "handleEvent" -> <<"doAnimate">>
      [] f = "doAnimate" -> <<"lock", "touch", "doFadingAnimationLocked",
                              "doBitmapAnimationLocked", "startAnimationLocked">>
      [] f = "doInactivityTimeout" -> <<"lock", "fade">>

\* The looper's callbacks and what they call (lines 483-543, 626-628).
LooperCode(f) ==
    CASE f = "handleMessage" -> <<"doInactivityTimeout">>
      [] f = "handleEvent" -> <<"doAnimate">>
      [] f = "doAnimate" -> <<"lock", "touch", "doFadingAnimationLocked",
                              "doBitmapAnimationLocked", "startAnimationLocked">>
      [] f = "doInactivityTimeout" -> <<"fade">>

LooperOps == {"handleMessage", "handleEvent"}

LooperFunctions == LooperOps \cup {"doAnimate", "doInactivityTimeout"}

\* The functions that expect the lock to be held (lines 130-142, 183-202,
\* 545-817).
LockedCode(f) ==
    CASE f = "getBoundsLocked" -> <<"touch">>
      [] f = "setPositionLocked" -> <<"getBoundsLocked", "touch", "updatePointerLocked">>
      [] f = "doFadingAnimationLocked" -> <<"touch", "updatePointerLocked", "touch",
                                            "releaseSpotLocked", "touch">>
      [] f = "doBitmapAnimationLocked" -> <<"touch">>
      [] f = "startAnimationLocked" -> <<"touch">>
      [] f = "resetInactivityTimeoutLocked" -> <<"touch">>
      [] f = "removeInactivityTimeoutLocked" -> <<>>
      [] f = "updatePointerLocked" -> <<"touch", "startAnimationLocked", "touch">>
      [] f = "getSpot" -> <<"touch">>
      [] f = "createAndAddSpotLocked" -> <<"removeFirstFadingSpotLocked", "touch",
                                           "releaseSpotLocked", "touch">>
      [] f = "removeFirstFadingSpotLocked" -> <<"touch">>
      [] f = "releaseSpotLocked" -> <<"touch">>
      [] f = "fadeOutAndReleaseSpotLocked" -> <<"touch", "startAnimationLocked">>
      [] f = "fadeOutAndReleaseAllSpotsLocked" -> <<"touch",
                                                    "fadeOutAndReleaseSpotLocked">>
      [] f = "loadResourcesLocked" -> <<"touch">>
      [] f = "updateSprite" -> <<"touch">>

Code(f) ==
    IF f \in PublicOps THEN PublicCode(f)
    ELSE IF f \in LooperFunctions THEN LooperCode(f)
    ELSE LockedCode(f)

\* The functions with a loop around some of their steps.
Looping ==
    {"setSpots", "createAndAddSpotLocked", "doFadingAnimationLocked",
     "fadeOutAndReleaseAllSpotsLocked"}

\* A frame of a call stack: the function, the step it is at, and whether its
\* AutoMutex holds the lock.
Frame(f) == [f |-> f, pc |-> 1, locked |-> FALSE]

\* A thread outside this file; sections counts the critical sections of the
\* operation it ran last or is running.
Idle == [frames |-> <<>>, sections |-> 0]

Running(t) == threads[t].frames # <<>>

Top(t) == threads[t].frames[Len(threads[t].frames)]

\* The step thread t is at.
NextStep(t) ==
    IF ~Running(t) THEN "idle"
    ELSE IF Top(t).pc > Len(Code(Top(t).f)) THEN "return"
    ELSE Code(Top(t).f)[Top(t).pc]

\* Everything the lock steps leave alone.
data == <<viewport, pointerX, pointerY, pointerAlpha, pointerFadeDirection,
          presentation, presentationChanged, pointerIconChanged,
          requestedPointerType, inactivityTimeout, animationPending,
          animationTime, animationFrameIndex, lastFrameUpdatedTime,
          resourcesDisplay, additionalMouseResources, animationResources,
          spotsByDisplay, recycledSprites, pointerSprite, msgQueue, looperPc,
          vsyncRequests, now, pointerController, fdCallback, fx, op, lmkd>>

\* Thread t's top frame moves to step pc.
Goto(t, pc) ==
    [threads EXCEPT ![t].frames[Len(threads[t].frames)].pc = pc]

\* A thread enters one of its entry points.
Call(t, f) ==
    /\ ~Running(t)
    /\ f \in (IF t = "looper" THEN LooperOps ELSE PublicOps)
    /\ threads' = [threads EXCEPT ![t] = [frames |-> <<Frame(f)>>, sections |-> 0]]
    /\ UNCHANGED <<mLock, data>>

\* AutoMutex _l(mLock): blocks while another thread holds the lock, and
\* for ever when the thread itself does (Mutex is not recursive).
Acquire(t) ==
    /\ NextStep(t) = "lock"
    /\ mLock = "none"
    /\ mLock' = t
    /\ threads' = [threads EXCEPT
                       ![t].frames[Len(threads[t].frames)] =
                           [@ EXCEPT !.pc = @ + 1, !.locked = TRUE],
                       ![t].sections = @ + 1]
    /\ UNCHANGED data

\* A read or write of the shared state.
Touch(t) ==
    /\ NextStep(t) = "touch"
    /\ threads' = Goto(t, Top(t).pc + 1)
    /\ UNCHANGED <<mLock, data>>

\* A call of another function of this file.
Enter(t) ==
    /\ NextStep(t) \notin {"idle", "return", "lock", "touch"}
    /\ threads' = [Goto(t, Top(t).pc + 1) EXCEPT
                       ![t].frames = Append(@, Frame(NextStep(t)))]
    /\ UNCHANGED <<mLock, data>>

\* A branch that leaves a step out.
Skip(t) ==
    /\ NextStep(t) \notin {"idle", "return", "lock"}
    /\ threads' = Goto(t, Top(t).pc + 1)
    /\ UNCHANGED <<mLock, data>>

\* The next round of a loop: back to a step after the AutoMutex.
Loop(t) ==
    /\ Running(t)
    /\ Top(t).f \in Looping
    /\ \E pc \in 1..(Top(t).pc - 1) :
           /\ \A i \in pc..(Top(t).pc - 1) : Code(Top(t).f)[i] # "lock"
           /\ threads' = Goto(t, pc)
    /\ UNCHANGED <<mLock, data>>

\* A return, early or at the end; the AutoMutex of the frame unlocks.
Return(t) ==
    /\ Running(t)
    /\ NextStep(t) = "lock" => Top(t).f = "move"
    /\ threads' = [threads EXCEPT ![t].frames = SubSeq(@, 1, Len(@) - 1)]
    /\ mLock' = IF Top(t).locked THEN "none" ELSE mLock
    /\ UNCHANGED data

\* ------------------------------------------------------------ LmkdConnection

\* The threads that call connect, waitForConnection and exchange; the fd
\* listener runs on the message queue's looper thread.
Callers == {"c1", "c2"}

\* A thread outside every call: the last call it made, what it returned, what
\* ended its wait, and whether a packet was copied into the repl buffer it
\* passed to exchange.
CallerIdle ==
    [pc |-> "idle", call |-> "none", result |-> "none", cause |-> "none",
     copied |-> FALSE]

\* What read() can find: nothing (len <= 0), or a packet, told apart by what
\* the listener says of it: the repl buffers isReplyExpected accepts it for
\* (named by the thread that passed them) and whether
\* handleUnsolicitedMessage handles it. mInputBuf holds the packet from
\* its read to the end of its processing, after which nothing reads it.
NoPacket == [len |-> 0, expected |-> {}, handled |-> FALSE]
Packets ==
    [len : {1}, expected : SUBSET Callers, handled : BOOLEAN]

\* The instance after its constructor (lines 107-110), with a listener:
\* sockets are numbered in the order openSocket makes them, 0 standing for
\* null; fdListener is the socket whose fd the message queue watches.
LmkdInit ==
    [mLmkdSocket |-> 0, mLmkdOutputStream |-> 0, mLmkdInputStream |-> 0,
     mReplyBuf |-> "null", mInputBuf |-> NoPacket,
     fdListener |-> 0, opened |-> 0, closed |-> {},
     onConnect |-> 0, onDisconnect |-> 0,
     handler |-> "idle", events |-> {},
     callers |-> [t \in Callers |-> CallerIdle],
     last |-> [name |-> "create", t |-> "none", a |-> "none"]]

Did(c, name, t, a) == [c EXCEPT !.last = [name |-> name, t |-> t, a |-> a]]

isConnected(c) == c.mLmkdSocket # 0

\* Object.notifyAll on mLmkdSocketLock and on mReplyBufLock: every thread in
\* the wait set leaves it and has yet to take the monitor again.
notifyAllSocketLock(c) ==
    [c EXCEPT !.callers = [t \in Callers |->
        IF @[t].pc = "connWait" THEN [@[t] EXCEPT !.pc = "connNotified"] ELSE @[t]]]

notifyAllReplyBufLock(c, cause) ==
    [c EXCEPT !.callers = [t \in Callers |->
        IF @[t].pc = "waiting"
        THEN [@[t] EXCEPT !.pc = "notified", !.cause = cause]
        ELSE @[t]]]

\* connect() (lines 112-155) as one critical section of mLmkdSocketLock;
\* outcome is what the environment does: "ok", or the step that fails.
connect(c, t, outcome) ==
    LET returns(d, r) == [d EXCEPT !.callers[t] =
                              [CallerIdle EXCEPT !.call = "connect", !.result = r]]
    IN IF c.mLmkdSocket # 0 THEN returns(c, "true")
       ELSE IF outcome = "openFailed" THEN returns(c, "false")
       ELSE LET socket == c.opened + 1
                a == [c EXCEPT !.opened = socket]
            IN IF outcome = "streamFailed"
               THEN returns([a EXCEPT !.closed = @ \cup {socket}], "false")
               ELSE IF outcome = "onConnectFailed"
               THEN returns([a EXCEPT !.onConnect = @ + 1,
                                      !.closed = @ \cup {socket}], "false")
               ELSE returns(notifyAllSocketLock(
                                [a EXCEPT !.onConnect = @ + 1,
                                          !.mLmkdSocket = socket,
                                          !.mLmkdOutputStream = socket,
                                          !.mLmkdInputStream = socket,
                                          !.fdListener = socket]), "true")

\* write() (lines 248-257): a null stream makes the call throw, the stream
\* of a socket closed on this side throws IOException, and ok says whether
\* the peer takes the bytes otherwise.
write(c, ok) ==
    IF c.mLmkdOutputStream = 0 THEN "threw"
    ELSE IF c.mLmkdOutputStream \in c.closed THEN "false"
    ELSE IF ok THEN "true" ELSE "false"

\* exchange() up to its wait (lines 275-288, 296-298): with a null repl it
\* is the write alone; otherwise mReplyBuf is set under mReplyBufLock, and
\* the thread waits if the write went through, or resets mReplyBuf and
\* returns false; an exception of write leaves the block with mReplyBuf set.
exchangeBegin(c, t, withRepl, ok) ==
    LET w == write(c, ok)
        call == IF withRepl THEN "exchange" ELSE "write"
        returns(d, r) == [d EXCEPT !.callers[t] =
                              [CallerIdle EXCEPT !.call = call, !.result = r,
                                                 !.cause = "write"]]
    IN IF ~withRepl THEN returns(c, w)
       ELSE LET a == [c EXCEPT !.mReplyBuf = t]
            IN IF w = "threw" THEN returns(a, "threw")
               ELSE IF w = "false" THEN returns([a EXCEPT !.mReplyBuf = "null"], "false")
               ELSE [a EXCEPT !.callers[t] =
                         [CallerIdle EXCEPT !.pc = "waiting", !.call = call]]

\* exchange() from the return of wait() (lines 289, 296-298), the monitor
\* taken again.
exchangeEnd(c, t) ==
    [c EXCEPT !.callers[t].pc = "idle",
              !.callers[t].result = IF c.mReplyBuf # "null" THEN "true" ELSE "false",
              !.mReplyBuf = "null"]

\* exchange() when wait() throws InterruptedException (lines 290-298).
exchangeInterrupted(c, t) ==
    [c EXCEPT !.callers[t].pc = "idle",
              !.callers[t].result = "false",
              !.callers[t].cause = "interrupted",
              !.mReplyBuf = "null"]

\* waitForConnection() (lines 219-231) up to its wait, and from it.
waitForConnectionBegin(c, t) ==
    IF c.mLmkdSocket # 0
    THEN [c EXCEPT !.callers[t] =
              [CallerIdle EXCEPT !.call = "waitForConnection", !.result = "true"]]
    ELSE [c EXCEPT !.callers[t] =
              [CallerIdle EXCEPT !.call = "waitForConnection", !.pc = "connWait"]]

waitForConnectionEnd(c, t, why) ==
    [c EXCEPT !.callers[t].pc = "idle",
              !.callers[t].cause = why,
              !.callers[t].result =
                  IF why # "interrupted" /\ c.mLmkdSocket # 0 THEN "true" ELSE "false"]

\* processIncomingData() after its read (lines 188-210), one critical
\* section of mReplyBufLock.
processIncomingData(c) ==
    LET p == c.mInputBuf
    IN IF p.len <= 0 THEN c
       ELSE IF c.mReplyBuf # "null"
            THEN IF c.mReplyBuf \in p.expected
                 THEN notifyAllReplyBufLock(
                          [c EXCEPT !.callers[c.mReplyBuf].copied = TRUE], "reply")
                 ELSE IF ~p.handled
                      THEN notifyAllReplyBufLock([c EXCEPT !.mReplyBuf = "null"],
                                                 "unexpected")
                      ELSE c
            ELSE c

\* The EVENT_ERROR part of fileDescriptorEventHandler: the block under
\* mLmkdSocketLock (lines 165-171), the block under mReplyBufLock (lines
\* 173-178), and the callback (lines 180-181).
closeSocket(c) ==
    [c EXCEPT !.fdListener = 0,
              !.closed = @ \cup {c.mLmkdSocket},
              !.mLmkdSocket = 0]

wakeWaiters(c) ==
    IF c.mReplyBuf # "null"
    THEN notifyAllReplyBufLock([c EXCEPT !.mReplyBuf = "null"], "error")
    ELSE c

\* Where the handler goes after its EVENT_INPUT part.
AfterInput(c) == IF "EVENT_ERROR" \in c.events THEN "close" ELSE "idle"

\* Everything but the LmkdConnection instance.
pointer == <<viewport, pointerX, pointerY, pointerAlpha, pointerFadeDirection,
             presentation, presentationChanged, pointerIconChanged,
             requestedPointerType, inactivityTimeout, animationPending,
             animationTime, animationFrameIndex, lastFrameUpdatedTime,
             resourcesDisplay, additionalMouseResources, animationResources,
             spotsByDisplay, recycledSprites, pointerSprite, msgQueue, looperPc,
             vsyncRequests, now, pointerController, fdCallback, mLock, threads,
             fx, op>>

Lmkd(c) == lmkd' = c /\ UNCHANGED pointer

ConnectOutcomes == {"ok", "openFailed", "streamFailed", "onConnectFailed"}

Connect(t, outcome) ==
    /\ lmkd.callers[t].pc = "idle"
    /\ (lmkd.mLmkdSocket = 0 /\ outcome # "openFailed") => lmkd.opened < MaxSockets
    /\ Lmkd(Did(connect(lmkd, t, outcome), "connect", t, outcome))

WaitForConnection(t) ==
    /\ lmkd.callers[t].pc = "idle"
    /\ Lmkd(Did(waitForConnectionBegin(lmkd, t), "waitForConnection", t, "none"))

WaitForConnectionReturns(t, why) ==
    /\ IF why = "notified" THEN lmkd.callers[t].pc = "connNotified"
       ELSE lmkd.callers[t].pc = "connWait"
    /\ Lmkd(Did(waitForConnectionEnd(lmkd, t, why), "waitForConnectionReturns", t, why))

Exchange(t, withRepl, ok) ==
    /\ lmkd.callers[t].pc = "idle"
    /\ Lmkd(Did(exchangeBegin(lmkd, t, withRepl, ok), "exchange", t,
                IF withRepl THEN "repl" ELSE "null"))

\* Object.wait() may return without a notify (a spurious wakeup).
SpuriousWakeup(t) ==
    /\ lmkd.callers[t].pc = "waiting"
    /\ Lmkd(Did([lmkd EXCEPT !.callers[t].pc = "notified",
                             !.callers[t].cause = "spurious"],
                "wakeup", t, "spurious"))

ExchangeReturns(t) ==
    /\ lmkd.callers[t].pc = "notified"
    /\ Lmkd(Did(exchangeEnd(lmkd, t), "exchangeReturns", t, lmkd.callers[t].cause))

ExchangeInterrupted(t) ==
    /\ lmkd.callers[t].pc = "waiting"
    /\ Lmkd(Did(exchangeInterrupted(lmkd, t), "exchangeReturns", t, "interrupted"))

\* The message queue calls the listener of the watched fd (line 157): the
\* handler starts with its EVENT_INPUT part or goes to its EVENT_ERROR part.
FdEvents == {{"EVENT_INPUT"}, {"EVENT_ERROR"}, {"EVENT_INPUT", "EVENT_ERROR"}}

FileDescriptorEvent(events) ==
    /\ lmkd.handler = "idle"
    /\ lmkd.fdListener # 0
    /\ Lmkd(Did([lmkd EXCEPT !.events = events,
                             !.handler = IF "EVENT_INPUT" \in events
                                         THEN "read" ELSE "close"],
                "fileDescriptorEventHandler", "looper",
                IF events = {"EVENT_INPUT"} THEN "EVENT_INPUT"
                ELSE IF events = {"EVENT_ERROR"} THEN "EVENT_ERROR"
                ELSE "EVENT_INPUT|EVENT_ERROR"))

\* read(mInputBuf) (lines 187, 259-267).
Read(p) ==
    /\ lmkd.handler = "read"
    /\ Lmkd(Did([lmkd EXCEPT !.mInputBuf = p,
                             !.handler = IF p.len > 0 THEN "process"
                                         ELSE AfterInput(lmkd),
                             !.events = IF p.len <= 0 /\ AfterInput(lmkd) = "idle"
                                        THEN {} ELSE @],
                "read", "looper", IF p.len > 0 THEN "packet" ELSE "nothing"))

ProcessIncomingData ==
    /\ lmkd.handler = "process"
    /\ Lmkd(Did([processIncomingData(lmkd) EXCEPT !.handler = AfterInput(lmkd),
                                                  !.mInputBuf = NoPacket,
                                                  !.events = IF AfterInput(lmkd) = "idle"
                                                             THEN {} ELSE @],
                "processIncomingData", "looper", "none"))

CloseSocket ==
    /\ lmkd.handler = "close"
    /\ Lmkd(Did([closeSocket(lmkd) EXCEPT !.handler = "wake"],
                "closeSocket", "looper", "none"))

WakeWaiters ==
    /\ lmkd.handler = "wake"
    /\ Lmkd(Did([wakeWaiters(lmkd) EXCEPT !.handler = "disconnect"],
                "wakeWaiters", "looper", "none"))

OnDisconnect ==
    /\ lmkd.handler = "disconnect"
    /\ Lmkd(Did([lmkd EXCEPT !.onDisconnect = @ + 1, !.handler = "idle",
                             !.events = {}],
                "onDisconnect", "looper", "none"))

\* ------------------------------------------------------------ initial state

\* The state the constructor and create() leave (lines 74-103).
Init ==
    /\ viewport = NoViewport
    /\ pointerX = 0
    /\ pointerY = 0
    /\ pointerAlpha = 0
    /\ pointerFadeDirection = 0
    /\ presentation = "POINTER"
    /\ presentationChanged = FALSE
    /\ pointerIconChanged = FALSE
    /\ requestedPointerType = DefaultIconId
    /\ inactivityTimeout = "NORMAL"
    /\ animationPending = FALSE
    /\ animationTime = 0
    /\ animationFrameIndex = 0
    /\ lastFrameUpdatedTime = 0
    /\ resourcesDisplay = -1
    /\ additionalMouseResources = {}
    /\ animationResources = {}
    /\ spotsByDisplay = <<>>
    /\ recycledSprites = <<>>
    /\ pointerSprite = [x |-> 0, y |-> 0, displayId |-> 0, visible |-> FALSE,
                        alpha |-> AlphaOne, icon |-> <<"none">>]
    /\ msgQueue = <<>>
    /\ looperPc = "idle"
    /\ vsyncRequests = 0
    /\ now = 1
    /\ pointerController = "live"
    /\ fdCallback = TRUE
    /\ mLock = "none"
    /\ threads = [t \in Threads |-> Idle]
    /\ fx = NoFx
    /\ op = Op("create", 0, 0)
    /\ lmkd = LmkdInit

\* ------------------------------------------------------------ inputs

Transitions == {"IMMEDIATE", "GRADUAL"}
Presentations == {"POINTER", "SPOT"}
TimeoutKinds == {"NORMAL", "SHORT"}

\* A display of natural size w x h shown in orientation o, its logical frame
\* the whole rotated display.
Rotated(id, o, w, h) ==
    IF o = 90 \/ o = 270 THEN Viewport(id, o, 0, 0, h, w, h, w)
    ELSE Viewport(id, o, 0, 0, w, h, w, h)


\* Display 0 in its four orientations, display 0 with only its logical frame
\* changed (the left column cut off), a square display 1, and no display.
Viewports ==
    {NoViewport,
     Viewport(0, 0, 1, 0, NaturalWidth, NaturalHeight, NaturalWidth, NaturalHeight),
     Rotated(1, 0, NaturalHeight, NaturalHeight)}
    \cup {Rotated(0, o, NaturalWidth, NaturalHeight) : o \in {0, 90, 180, 270}}

\* Positions handed to setPosition: left of, on, inside and right of the frame.
Coords == {Px(-1), 0, HalfPx, Px(NaturalHeight - 1), Px(NaturalWidth + 1)}

\* Deltas handed to move.
Deltas == {Px(-1), 0, HalfPx, Px(NaturalWidth)}

IconIds == {DefaultIconId, "ARROW", "WAIT", "UNKNOWN"}

SpotIds == 0..MaxSpotId

\* ------------------------------------------------------------ specifications

\* The viewports of the specifications that are not about geometry: none,
\* and display 0 in its natural orientation.
PlainViewports == {NoViewport, Rotated(0, 0, NaturalWidth, NaturalHeight)}

\* The pointer's fade, its inactivity timer and the animation loop.
Next ==
    \/ \E v \in PlainViewports : SetDisplayViewport(v)
    \/ \E t \in Transitions : Fade(t)
    \/ \E t \in Transitions : Unfade(t)
    \/ \E k \in TimeoutKinds : SetInactivityTimeout(k)
    \/ DeliverTimeout
    \/ DoInactivityTimeout
    \/ \E e \in 1..MaxElapsed : DoAnimate(e)

Spec == Init /\ [][Next]_vars

\* The pointer's position under viewport changes.
NextGeometry ==
    \/ \E v \in Viewports : SetDisplayViewport(v)
    \/ \E dx, dy \in Deltas : Move(dx, dy)
    \/ \E x, y \in Coords : SetPosition(x, y)
    \/ Fade("IMMEDIATE")
    \/ Unfade("IMMEDIATE")
    \/ \E ids \in SUBSET {0} :
           SetSpots([id \in SpotIds |-> [x |-> Px(1), y |-> Px(1), pressure |-> 1]],
                    ids, 0)
    \/ ClearSpots

SpecGeometry == Init /\ [][NextGeometry]_vars

\* Each active id's coordinates: pressure 0 (hover) or 1 (touch), and a
\* position that differs with it.
SpotCoords ==
    {[id \in SpotIds |-> [x |-> Px(p), y |-> Px(id), pressure |-> p]] : p \in {0, 1}}

\* The spots of one display, the recycle pool and the presentation.
NextSpots ==
    \/ \E v \in PlainViewports : SetDisplayViewport(v)
    \/ \E c \in SpotCoords, ids \in SUBSET SpotIds : SetSpots(c, ids, 0)
    \/ ClearSpots
    \/ \E p \in Presentations : SetPresentation(p)
    \/ \E e \in 1..SPOT_FADE_DURATION : now + e <= SpotsMaxTime /\ DoAnimate(e)

SpecSpots == Init /\ [][NextSpots]_vars

\* One touch on each of two displays.
NextDisplays ==
    \/ \E v \in PlainViewports : SetDisplayViewport(v)
    \/ \E ids \in SUBSET {0}, d \in {0, 1} :
           SetSpots([id \in SpotIds |-> [x |-> Px(1), y |-> Px(1), pressure |-> 1]],
                    ids, d)
    \/ ClearSpots
    \/ \E p \in Presentations : SetPresentation(p)
    \/ \E e \in 1..SPOT_FADE_DURATION : now + e <= SpotsMaxTime /\ DoAnimate(e)

SpecDisplays == Init /\ [][NextDisplays]_vars

\* The pointer's icon and its bitmap animation, next to the pointer's fade.
NextIcon ==
    \/ \E v \in PlainViewports : SetDisplayViewport(v)
    \/ \E i \in IconIds : UpdatePointerIcon(i)
    \/ SetCustomPointerIcon
    \/ ReloadPointerResources
    \/ \E p \in Presentations : SetPresentation(p)
    \/ \E t \in Transitions : Fade(t)
    \/ \E t \in Transitions : Unfade(t)
    \/ \E e \in 1..DurationPerFrame : now + e <= SpotsMaxTime /\ DoAnimate(e)

SpecIcon == Init /\ [][NextIcon]_vars

\* The threads' steps through the lock, the shared state left as it is.
NextLock ==
    \/ \E t \in Threads, f \in PublicOps \cup LooperOps : Call(t, f)
    \/ \E t \in Threads : Acquire(t)
    \/ \E t \in Threads : Touch(t)
    \/ \E t \in Threads : Enter(t)
    \/ \E t \in Threads : Skip(t)
    \/ \E t \in Threads : Loop(t)
    \/ \E t \in Threads : Return(t)

SpecLock == Init /\ [][NextLock]_vars

\* The icons of the animation loop: the default one and the animated one.
LoopIcons == {DefaultIconId, "WAIT"}

\* The animation loop with all that keeps it going: the pointer's fade,
\* fading spots and an animated icon.
NextAnimation ==
    \/ \E v \in PlainViewports : SetDisplayViewport(v)
    \/ \E i \in LoopIcons : UpdatePointerIcon(i)
    \/ \E t \in Transitions : Fade(t)
    \/ \E t \in Transitions : Unfade(t)
    \/ \E ids \in SUBSET {0} :
           SetSpots([id \in SpotIds |-> [x |-> Px(1), y |-> Px(1), pressure |-> 1]],
                    ids, 0)
    \/ \E e \in 1..SPOT_FADE_DURATION : now + e <= SpotsMaxTime /\ DoAnimate(e)

SpecAnimation == Init /\ [][NextAnimation]_vars

\* The icons with and without frames.
FrameIcons == {DefaultIconId, "WAIT", "PROGRESS"}

\* The bitmap animation: icons of different lengths, both presentations,
\* pushes, and ticks over a longer time.
NextFrames ==
    \/ \E v \in PlainViewports : SetDisplayViewport(v)
    \/ \E i \in FrameIcons : UpdatePointerIcon(i)
    \/ \E p \in Presentations : SetPresentation(p)
    \/ Unfade("IMMEDIATE")
    \/ \E e \in 1..MaxElapsed : DoAnimate(e)

SpecFrames == Init /\ [][NextFrames]_vars

\* Time enough after the last call for the longer fade to run in the
\* smallest steps.
LastTickTime == LastCallTime + POINTER_FADE_DURATION

\* A requested pulse is delivered, its timestamp later than the clock.
Tick == \E e \in 1..MaxElapsed : now + e <= LastTickTime /\ DoAnimate(e)

\* The animation loop left to itself: public calls come only up to
\* LastCallTime, a requested pulse always arrives.
NextQuiet ==
    \/ now <= LastCallTime /\ \E v \in PlainViewports : SetDisplayViewport(v)
    \/ now <= LastCallTime /\ \E i \in LoopIcons : UpdatePointerIcon(i)
    \/ now <= LastCallTime /\ \E t \in Transitions : Fade(t)
    \/ now <= LastCallTime /\ \E t \in Transitions : Unfade(t)
    \/ now <= LastCallTime /\ \E ids \in SUBSET {0} :
           SetSpots([id \in SpotIds |-> [x |-> Px(1), y |-> Px(1), pressure |-> 1]],
                    ids, 0)
    \/ Tick

\* A pulse is outstanding and the clock moves: only a tick moves the clock,
\* so these steps are the ticks.
Pulse ==
    /\ looperPc = "idle"
    /\ fdCallback
    /\ vsyncRequests > 0
    /\ now' \in (now + 1)..LastTickTime

\* A requested pulse is eventually delivered.
SpecQuiet == Init /\ [][NextQuiet]_vars /\ WF_now(Pulse)

\* No display, display 0 upright and turned, and display 1.
RenderViewports ==
    {NoViewport, Rotated(1, 0, NaturalHeight, NaturalHeight)}
    \cup {Rotated(0, o, NaturalWidth, NaturalHeight) : o \in {0, 90}}

\* Everything that changes what the pointer sprite should show: position,
\* viewport, alpha by calls and by ticks.
NextRender ==
    \/ \E v \in RenderViewports : SetDisplayViewport(v)
    \/ \E dx, dy \in {0, Px(1)} : Move(dx, dy)
    \/ \E x \in {Px(-1), HalfPx} : SetPosition(x, x)
    \/ \E t \in Transitions : Fade(t)
    \/ \E t \in Transitions : Unfade(t)
    \/ \E e \in 1..MaxElapsed : now + e <= SpotsMaxTime + 1 /\ DoAnimate(e)

SpecRender == Init /\ [][NextRender]_vars

\* What the looper may report on the vsync fd besides a pulse.
OtherEvents == {"EVENT_ERROR", "EVENT_HANGUP", "EVENT_OUTPUT"}

\* The controller's life: calls while it exists, its destruction at any
\* moment, and the callbacks the looper still delivers afterwards.
NextLifetime ==
    \/ pointerController = "live" /\ \E v \in PlainViewports : SetDisplayViewport(v)
    \/ pointerController = "live" /\ \E t \in Transitions : Fade(t)
    \/ pointerController = "live" /\ \E t \in Transitions : Unfade(t)
    \/ pointerController = "live" /\ \E ids \in SUBSET {0} :
           SetSpots([id \in SpotIds |-> [x |-> Px(1), y |-> Px(1), pressure |-> 1]],
                    ids, 0)
    \/ Destroy
    \/ DeliverTimeout
    \/ DoInactivityTimeout
    \/ \E e \in 1..MaxElapsed : now + e <= SpotsMaxTime /\ DoAnimate(e)
    \/ \E ev \in OtherEvents : HandleEvent(ev)

SpecLifetime == Init /\ [][NextLifetime]_vars


\* The LmkdConnection instance: two caller threads and the looper thread,
\* each step one critical section of mLmkdSocketLock or mReplyBufLock.
NextLmkd ==
    \/ \E t \in Callers, o \in ConnectOutcomes : Connect(t, o)
    \/ \E t \in Callers : WaitForConnection(t)
    \/ \E t \in Callers, why \in {"notified", "timeout", "interrupted"} :
           WaitForConnectionReturns(t, why)
    \/ \E t \in Callers, withRepl, ok \in BOOLEAN : Exchange(t, withRepl, ok)
    \/ \E t \in Callers : SpuriousWakeup(t)
    \/ \E t \in Callers : ExchangeReturns(t)
    \/ \E t \in Callers : ExchangeInterrupted(t)
    \/ \E e \in FdEvents : FileDescriptorEvent(e)
    \/ \E p \in Packets \cup {NoPacket} : Read(p)
    \/ ProcessIncomingData
    \/ CloseSocket
    \/ WakeWaiters
    \/ OnDisconnect

SpecLmkd == Init /\ [][NextLmkd]_vars

\* ------------------------------------------------------------ claims

Bounds == getBoundsLocked(Cur)

\* The mathematical clamp of v to [lo, hi].
Clamp(v, lo, hi) ==
    LET m == IF v < hi THEN v ELSE hi IN IF m > lo THEN m ELSE lo

\* Everything but the record of the last operation and of its calls.
state == <<viewport, pointerX, pointerY, pointerAlpha, pointerFadeDirection,
           presentation, presentationChanged, pointerIconChanged,
           requestedPointerType, inactivityTimeout, animationPending,
           animationTime, animationFrameIndex, lastFrameUpdatedTime,
           resourcesDisplay, additionalMouseResources, animationResources,
           spotsByDisplay, recycledSprites, pointerSprite, msgQueue, looperPc,
           vsyncRequests, now>>

\* C1: whenever the viewport is valid, the pointer position lies within
\* [logicalLeft, logicalRight-1] x [logicalTop, logicalBottom-1].
C1_PositionWithinViewport ==
    IsValid(viewport) =>
        /\ Bounds.minX <= pointerX /\ pointerX <= Bounds.maxX
        /\ Bounds.minY <= pointerY /\ pointerY <= Bounds.maxY

\* C2: under a valid viewport setPosition(x, y) stores the clamp of (x, y)
\* to the bounds, and move(dx, dy) with a non-zero delta stores the clamp of
\* position + delta.
C2_SetPositionClamps ==
    [][/\ (op'.name = "setPosition" /\ IsValid(viewport)) =>
              /\ pointerX' = Clamp(op'.a, Px(viewport.logicalLeft),
                                   Px(viewport.logicalRight - 1))
              /\ pointerY' = Clamp(op'.b, Px(viewport.logicalTop),
                                   Px(viewport.logicalBottom - 1))
       /\ (op'.name = "move" /\ IsValid(viewport) /\ (op'.a # 0 \/ op'.b # 0)) =>
              /\ pointerX' = Clamp(pointerX + op'.a, Px(viewport.logicalLeft),
                                   Px(viewport.logicalRight - 1))
              /\ pointerY' = Clamp(pointerY + op'.b, Px(viewport.logicalTop),
                                   Px(viewport.logicalBottom - 1))]_vars

\* setPosition has clamped a position right of and below the frame.
C2_Witness ==
    /\ op.name = "setPosition"
    /\ IsValid(viewport)
    /\ op.a > Bounds.maxX /\ pointerX = Bounds.maxX
    /\ op.b > Bounds.maxY /\ pointerY = Bounds.maxY

\* C3: move(0, 0) changes nothing of the state and makes no sprite or
\* transaction call.
C3_MoveZeroIsNoOp ==
    [][(op'.name = "move" /\ op'.a = 0 /\ op'.b = 0) =>
           /\ UNCHANGED state
           /\ fx' = NoFx]_vars

\* move(0, 0) has run under a valid viewport with the pointer visible.
C3_Witness ==
    /\ op.name = "move" /\ op.a = 0 /\ op.b = 0
    /\ IsValid(viewport)
    /\ pointerAlpha > 0
    /\ fx.txn = 0

\* C4: while the viewport is invalid, move, setPosition, setSpots and
\* clearSpots change nothing of the state and call no sprite or transaction.
C4_NoViewportNoOp ==
    [][(~IsValid(viewport)
            /\ op'.name \in {"move", "setPosition", "setSpots", "clearSpots"}) =>
           /\ UNCHANGED state
           /\ fx' = NoFx]_vars

\* setSpots with an active id has run while the viewport was invalid and a
\* spot of the previous viewport was still on the list.
C4_Witness ==
    /\ ~IsValid(viewport)
    /\ op.name = "setSpots" /\ op.a = {0}
    /\ 0 \in DOMAIN spotsByDisplay
    /\ Len(spotsByDisplay[0]) > 0


Immediate(name) == op.name = name /\ op.a = "IMMEDIATE"

\* C5: after fade(IMMEDIATE) alpha is 0 and after unfade(IMMEDIATE) alpha is
\* 1, the fade direction is NONE in both, and under a valid viewport the
\* pointer sprite has been told so in the same call.
C5_ImmediateSnaps ==
    /\ Immediate("fade") =>
           /\ pointerAlpha = 0 /\ pointerFadeDirection = 0
           /\ IsValid(viewport) => (fx.txn = 1 /\ ~pointerSprite.visible)
    /\ Immediate("unfade") =>
           /\ pointerAlpha = AlphaOne /\ pointerFadeDirection = 0
           /\ IsValid(viewport) =>
                  /\ fx.txn = 1
                  /\ pointerSprite.visible
                  /\ pointerSprite.alpha = AlphaOne

\* fade(IMMEDIATE) has cut short a gradual fade whose tick is still pending.
C5_Witness ==
    /\ Immediate("fade")
    /\ IsValid(viewport)
    /\ animationPending
    /\ pointerSprite.alpha < AlphaOne

\* C6 as claimed: after fade(IMMEDIATE) or unfade(IMMEDIATE) animationPending
\* is false and no vsync request is outstanding.
C6_NothingPendingAfterImmediate ==
    (Immediate("fade") \/ Immediate("unfade")) =>
        (~animationPending /\ vsyncRequests = 0)

\* C6 as amended: fade(IMMEDIATE) and unfade(IMMEDIATE) request no vsync and
\* leave animationPending and the outstanding requests as they were.
C6_ImmediateArmsNothing ==
    [][(op'.name \in {"fade", "unfade"} /\ op'.a = "IMMEDIATE") =>
           /\ animationPending' = animationPending
           /\ vsyncRequests' = vsyncRequests
           /\ fx'.vsync = 0]_vars

\* unfade(IMMEDIATE) has run while a tick was pending, and the tick still is.
C6_Witness ==
    /\ Immediate("unfade")
    /\ IsValid(viewport)
    /\ animationPending
    /\ vsyncRequests = 1
    /\ fx.vsync = 0

\* C7 as claimed: every tick of a fade out strictly decreases alpha.
C7_EveryTickDecreases ==
    [][(op'.name = "doAnimate" /\ pointerFadeDirection = -1) =>
           pointerAlpha' < pointerAlpha]_vars

\* C7 as amended: a tick of a fade out strictly decreases alpha when alpha
\* was above 0 and leaves it 0 otherwise; the tick that brings alpha to 0
\* sets the direction to NONE and asks for no further tick, every other
\* tick keeps fading out and asks for the next.
C7_FadeOutTicks ==
    [][(op'.name = "doAnimate" /\ pointerFadeDirection = -1) =>
           /\ pointerAlpha > 0 => pointerAlpha' < pointerAlpha
           /\ pointerAlpha = 0 => pointerAlpha' = 0
           /\ pointerAlpha' >= 0
           /\ IF pointerAlpha' = 0
              THEN pointerFadeDirection' = 0 /\ ~animationPending'
              ELSE pointerFadeDirection' = -1 /\ animationPending']_vars

\* A tick has taken a fade out part of the way.
C7_Witness ==
    /\ op.name = "doAnimate"
    /\ pointerFadeDirection = -1
    /\ 0 < pointerAlpha /\ pointerAlpha < AlphaOne

\* n seconds in the model's time unit.
Seconds(n) == 10 * n

\* The delay the claim gives each timeout kind.
ClaimedDelay(kind) == IF kind = "SHORT" THEN Seconds(3) ELSE Seconds(15)

\* C8: after fade no inactivity message is pending; after unfade exactly
\* one is, sent by that call with the delay of the current kind; never are
\* two pending.
C8_InactivityTimer ==
    /\ op.name \in {"fade", "doInactivityTimeout"} => msgQueue = <<>>
    /\ op.name = "unfade" =>
           /\ msgQueue = <<ClaimedDelay(inactivityTimeout)>>
           /\ fx.sent = 1
    /\ Len(msgQueue) <= 1

\* unfade has re-armed the short timer.
C8_Witness ==
    /\ op.name = "unfade"
    /\ inactivityTimeout = "SHORT"
    /\ msgQueue = <<Seconds(3)>>

\* C9: setInactivityTimeout with another kind stores it and leaves exactly
\* one pending message with the new kind's delay; with the stored kind it
\* changes nothing.
C9_SetInactivityTimeout ==
    [][op'.name = "setInactivityTimeout" =>
           IF op'.a # inactivityTimeout
           THEN /\ inactivityTimeout' = op'.a
                /\ msgQueue' = <<ClaimedDelay(op'.a)>>
           ELSE UNCHANGED state /\ fx' = NoFx]_vars

\* setInactivityTimeout(SHORT) has replaced the normal timer.
C9_Witness ==
    /\ op.name = "setInactivityTimeout" /\ op.a = "SHORT"
    /\ inactivityTimeout = "SHORT"
    /\ msgQueue = <<Seconds(3)>>


\* Every spot of every display of the map m is fading out.
AllSpotsFading(m) ==
    \A d \in DOMAIN m : \A i \in 1..Len(m[d]) : m[d][i].id = INVALID_ID

\* C10: setPresentation with the current presentation changes no state;
\* setPresentation(POINTER) from SPOT under a valid viewport leaves every
\* spot of every display fading, loads the additional mouse resources when
\* that table is empty (and only then), and pushes the pointer's state.
C10_SetPresentation ==
    [][op'.name = "setPresentation" =>
           IF op'.a = presentation
           THEN UNCHANGED state /\ fx' = NoFx
           ELSE (op'.a = "POINTER" /\ IsValid(viewport)) =>
                    /\ presentation' = "POINTER"
                    /\ AllSpotsFading(spotsByDisplay')
                    /\ DOMAIN spotsByDisplay' = DOMAIN spotsByDisplay
                    /\ IF additionalMouseResources = {}
                       THEN /\ additionalMouseResources' = PolicyMouseIcons
                            /\ fx'.loads = 1
                       ELSE /\ additionalMouseResources' = additionalMouseResources
                            /\ fx'.loads = 0
                    /\ fx'.txn = 1
                    /\ ~presentationChanged']_vars

\* setPresentation(POINTER) has loaded the mouse icons and started the fade
\* of spots that two displays hold.
C10_Witness ==
    /\ op.name = "setPresentation" /\ op.a = "POINTER"
    /\ IsValid(viewport)
    /\ fx.loads = 1 /\ fx.vsync = 1 /\ fx.txn = 1
    /\ DOMAIN spotsByDisplay = {0, 1}
    /\ \A d \in {0, 1} : Len(spotsByDisplay[d]) > 0
    /\ AllSpotsFading(spotsByDisplay)


\* The list the map m holds for display d, empty when it holds none.
ListOf(m, d) == IF d \in DOMAIN m THEN m[d] ELSE <<>>

\* The ids of the spots of list l that are not fading.
LiveIds(l) == {l[i].id : i \in 1..Len(l)} \ {INVALID_ID}

\* List l holds exactly one spot with this id, at the coordinates c.
OneSpotAt(l, id, c) ==
    \E i \in 1..Len(l) :
        /\ l[i].id = id /\ l[i].x = c.x /\ l[i].y = c.y
        /\ \A j \in 1..Len(l) : l[j].id = id => j = i

\* Every spot of list old that is live with an id outside ids is in list l,
\* fading.
GoneSpotsFade(old, l, ids) ==
    \A i \in 1..Len(old) :
        (old[i].id # INVALID_ID /\ old[i].id \notin ids) =>
            \E j \in 1..Len(l) :
                l[j].sprite = old[i].sprite /\ l[j].id = INVALID_ID

\* C11 as claimed: after setSpots under a valid viewport every active id,
\* however many there are, has exactly one live spot at its coordinates in
\* the display's list, and every spot that was live with an id that is not
\* active is fading.
C11_EveryActiveIdHasItsSpot ==
    [][(op'.name = "setSpots" /\ IsValid(viewport)) =>
           LET old == ListOf(spotsByDisplay, op'.b)
               l == ListOf(spotsByDisplay', op'.b)
           IN /\ \A id \in op'.a : OneSpotAt(l, id, op'.coords[id])
              /\ GoneSpotsFade(old, l, op'.a)]_vars

\* C11 as amended: the claim holds when the ids live before the call and
\* the active ids together are at most MAX_SPOTS; in every case the live
\* spots of the list have distinct ids, all active, each at its
\* coordinates, and the list holds a spot for at least one active id.
C11_SetSpotsWithinCap ==
    [][(op'.name = "setSpots" /\ IsValid(viewport)) =>
           LET old == ListOf(spotsByDisplay, op'.b)
               l == ListOf(spotsByDisplay', op'.b)
           IN /\ Cardinality(LiveIds(old) \cup op'.a) <= MAX_SPOTS =>
                     /\ \A id \in op'.a : OneSpotAt(l, id, op'.coords[id])
                     /\ GoneSpotsFade(old, l, op'.a)
              /\ LiveIds(l) \subseteq op'.a
              /\ \A id \in LiveIds(l) : OneSpotAt(l, id, op'.coords[id])
              /\ op'.a # {} => LiveIds(l) # {}
              /\ op'.b \in DOMAIN spotsByDisplay']_vars

\* setSpots has moved or made the spot of the one active id and started
\* the fade of another that was live.
C11_Witness ==
    /\ op.name = "setSpots" /\ IsValid(viewport)
    /\ Cardinality(op.a) = 1
    /\ fx.vsync = 1
    /\ LET l == spotsByDisplay[op.b]
       IN /\ Len(l) = MAX_SPOTS
          /\ LiveIds(l) = op.a
          /\ \E i \in 1..Len(l) : l[i].id = INVALID_ID /\ l[i].alpha = AlphaOne


\* Some spot of some display of the map m is live.
AnySpotLive(m) ==
    \E d \in DOMAIN m : \E i \in 1..Len(m[d]) : m[d][i].id # INVALID_ID

\* The map n holds the spots of the map m, in place, whatever their ids.
SameSpotsKept(m, n) ==
    /\ DOMAIN n = DOMAIN m
    /\ \A d \in DOMAIN m :
           /\ Len(n[d]) = Len(m[d])
           /\ \A i \in 1..Len(m[d]) :
                  [n[d][i] EXCEPT !.id = INVALID_ID] = [m[d][i] EXCEPT !.id = INVALID_ID]

\* C12: after clearSpots under a valid viewport every spot of every display
\* is fading, none has been removed (lists and pool are as before), and
\* animationPending is true if a spot was live before the call.
C12_ClearSpots ==
    [][(op'.name = "clearSpots" /\ IsValid(viewport)) =>
           /\ AllSpotsFading(spotsByDisplay')
           /\ SameSpotsKept(spotsByDisplay, spotsByDisplay')
           /\ recycledSprites' = recycledSprites
           /\ AnySpotLive(spotsByDisplay) => animationPending']_vars

\* clearSpots has started the fade of the spots of two displays and asked
\* for the tick.
C12_Witness ==
    /\ op.name = "clearSpots" /\ IsValid(viewport)
    /\ DOMAIN spotsByDisplay = {0, 1}
    /\ \A d \in {0, 1} :
           \E i \in 1..Len(spotsByDisplay[d]) : spotsByDisplay[d][i].alpha = AlphaOne
    /\ AllSpotsFading(spotsByDisplay)
    /\ fx.vsync = 1 /\ animationPending


\* The width and height of a viewport's display at orientation 0.
Unrotated(v) ==
    IF v.orientation \in {90, 270}
    THEN <<v.deviceHeight, v.deviceWidth>>
    ELSE <<v.deviceWidth, v.deviceHeight>>

\* Viewport v is another display than u, or one of another size.
DisplayChanged(u, v) ==
    u.displayId # v.displayId \/ Unrotated(u) # Unrotated(v)

\* C13: setDisplayViewport(v), v valid and of another display id or
\* unrotated size than the current viewport, puts the position at the
\* midpoint of v's bounds, reloads the resources for v's display, leaves
\* every spot of every display fading and pushes the pointer's state.
C13_ViewportChangeRecenters ==
    [][(/\ op'.name = "setDisplayViewport"
        /\ IsValid(op'.a)
        /\ DisplayChanged(viewport, op'.a)) =>
           /\ viewport' = op'.a
           /\ 2 * pointerX' = Px(op'.a.logicalLeft) + Px(op'.a.logicalRight - 1)
           /\ 2 * pointerY' = Px(op'.a.logicalTop) + Px(op'.a.logicalBottom - 1)
           /\ resourcesDisplay' = op'.a.displayId
           /\ fx'.loads >= 1
           /\ presentation = "POINTER" => additionalMouseResources' = PolicyMouseIcons
           /\ AllSpotsFading(spotsByDisplay')
           /\ SameSpotsKept(spotsByDisplay, spotsByDisplay')
           /\ fx'.txn = 1
           /\ pointerSprite'.x = pointerX' /\ pointerSprite'.y = pointerY'
           /\ pointerSprite'.displayId = op'.a.displayId]_vars

\* setDisplayViewport has moved the pointer to the second display and
\* started the fade of the spot the first display showed.
C13_Witness ==
    /\ op.name = "setDisplayViewport"
    /\ viewport.displayId = 1
    /\ resourcesDisplay = 1
    /\ 2 * pointerX = Bounds.minX + Bounds.maxX
    /\ 0 \in DOMAIN spotsByDisplay
    /\ Len(spotsByDisplay[0]) > 0
    /\ AllSpotsFading(spotsByDisplay)
    /\ fx.vsync = 1


\* The claim's mapping R of orientation o within a width and a height.
R(o, width, height, p) ==
    CASE o = 90 -> [x |-> p.y, y |-> height - p.x]
      [] o = 180 -> [x |-> width - p.x, y |-> height - p.y]
      [] o = 270 -> [x |-> width - p.y, y |-> p.x]
      [] OTHER -> p

\* The values a coordinate of q's preimage can have: q's coordinates and
\* their reflections in the width and in the height.
Reflections(width, height, q) ==
    {q.x, q.y, width - q.x, width - q.y, height - q.x, height - q.y}

\* The inverse of R: the point that R maps to q (R is one to one).
RInverse(o, width, height, q) ==
    CHOOSE p \in [x : Reflections(width, height, q),
                  y : Reflections(width, height, q)] : R(o, width, height, p) = q

\* Viewport v is viewport u's display, turned.
RotationOnly(u, v) ==
    /\ u.displayId = v.displayId
    /\ Unrotated(u) = Unrotated(v)
    /\ u.orientation # v.orientation

\* The pointer's position, and its position after the step.
Position == [x |-> pointerX, y |-> pointerY]
PositionAfter == [x |-> pointerX', y |-> pointerY']

\* A point moved by d on both axes.
Shift(p, d) == [x |-> p.x + d, y |-> p.y + d]

\* C14 as claimed: a rotation-only setDisplayViewport stores
\* R_new(R_old^-1(p + 0.5)) - 0.5 with each viewport's unrotated
\* (orientation-0) device width and height.
C14_RotationInUnrotatedSize ==
    [][(op'.name = "setDisplayViewport" /\ RotationOnly(viewport, op'.a)) =>
           PositionAfter =
               Shift(R(op'.a.orientation,
                       Px(Unrotated(op'.a)[1]), Px(Unrotated(op'.a)[2]),
                       RInverse(viewport.orientation,
                                Px(Unrotated(viewport)[1]), Px(Unrotated(viewport)[2]),
                                Shift(Position, HalfPx))),
                     0 - HalfPx)]_vars

\* C14 as amended: a rotation-only setDisplayViewport stores
\* R_new(R_old^-1(p + 0.5)) - 0.5 with each viewport's own deviceWidth and
\* deviceHeight, which are the display's size as turned by that viewport's
\* orientation.
C14_RotationInDeviceSize ==
    [][(op'.name = "setDisplayViewport" /\ RotationOnly(viewport, op'.a)) =>
           PositionAfter =
               Shift(R(op'.a.orientation,
                       Px(op'.a.deviceWidth), Px(op'.a.deviceHeight),
                       RInverse(viewport.orientation,
                                Px(viewport.deviceWidth), Px(viewport.deviceHeight),
                                Shift(Position, HalfPx))),
                     0 - HalfPx)]_vars

\* setDisplayViewport has turned the display to 270 degrees and carried the
\* pointer to the turned frame's last row, off its centre.
C14_Witness ==
    /\ op.name = "setDisplayViewport"
    /\ viewport.orientation = 270
    /\ fx.txn = 1 /\ fx.loads = 0
    /\ pointerY = Bounds.maxY
    /\ pointerX = Bounds.minX


\* C15: a rotation-only setDisplayViewport, and one with the current
\* viewport, leave the spot map with every spot's id and alpha, the recycle
\* pool and the loaded resource tables as they were; with the current
\* viewport the call changes no state and pushes nothing.
C15_RotationKeepsSpotsAndResources ==
    [][(/\ op'.name = "setDisplayViewport"
        /\ (RotationOnly(viewport, op'.a) \/ op'.a = viewport)) =>
           /\ spotsByDisplay' = spotsByDisplay
           /\ recycledSprites' = recycledSprites
           /\ additionalMouseResources' = additionalMouseResources
           /\ animationResources' = animationResources
           /\ resourcesDisplay' = resourcesDisplay
           /\ fx'.loads = 0
           /\ op'.a = viewport => (UNCHANGED state /\ fx' = NoFx)]_vars

\* setDisplayViewport has turned a display that shows a live spot.
C15_Witness ==
    /\ op.name = "setDisplayViewport"
    /\ viewport.orientation = 90
    /\ fx.txn = 1 /\ fx.loads = 0
    /\ AnySpotLive(spotsByDisplay)
    /\ additionalMouseResources = PolicyMouseIcons


\* The last two calls were setDisplayViewport: one that turned the display
\* out of a viewport and one that set that viewport again.
TurnedAndBack ==
    /\ op.name = "setDisplayViewport"
    /\ op.from.before.valid
    /\ RotationOnly(op.from.before.viewport, op.from.viewport)
    /\ op.a = op.from.before.viewport

\* C16: setDisplayViewport from orientation A to B of the same display and
\* then back to A leaves the position the pointer had before the two calls.
C16_RotationRoundTrip ==
    TurnedAndBack =>
        /\ pointerX = op.from.before.x
        /\ pointerY = op.from.before.y

\* The display was turned from 0 to 90 degrees and back with the pointer in
\* the top right corner of its frame.
C16_Witness ==
    /\ TurnedAndBack
    /\ viewport.orientation = 0
    /\ op.from.viewport.orientation = 90
    /\ pointerX = Bounds.maxX /\ pointerY = Bounds.minY
    /\ op.from.x # pointerX


\* C17: every display's spot list holds at most MAX_SPOTS spots, live and
\* fading together.
C17_AtMostMaxSpots ==
    \A d \in DOMAIN spotsByDisplay : Len(spotsByDisplay[d]) <= MAX_SPOTS

\* setSpots was handed more ids than MAX_SPOTS and the list is full.
C17_Witness ==
    /\ op.name = "setSpots" /\ IsValid(viewport)
    /\ Cardinality(op.a) > MAX_SPOTS
    /\ Len(spotsByDisplay[op.b]) = MAX_SPOTS


\* The sprite handles of the spots of list l, in the list's order.
Sprites(l) == [i \in 1..Len(l) |-> l[i].sprite]

\* The spot the claim has a full list give up: the first fading one if one
\* is fading, otherwise the first.
ClaimedEviction(l) ==
    IF \E i \in 1..Len(l) : l[i].id = INVALID_ID
    THEN Min({i \in 1..Len(l) : l[i].id = INVALID_ID})
    ELSE 1

\* Sequence s is t with some elements left out.
RECURSIVE IsSubSeq(_, _)
IsSubSeq(s, t) ==
    IF s = <<>> THEN TRUE
    ELSE IF t = <<>> THEN FALSE
    ELSE IF Head(s) = Head(t) THEN IsSubSeq(Tail(s), Tail(t))
    ELSE IsSubSeq(s, Tail(t))

\* The setSpots call with the active ids makes one spot only on the full
\* list old: one id is new, and the spot the list gives up for it is not
\* that of an active id the call has yet to come to.
MakesOneSpot(old, ids) ==
    /\ Len(old) = MAX_SPOTS
    /\ Cardinality(ids \ LiveIds(old)) = 1
    /\ \A n \in ids \ LiveIds(old) :
           old[ClaimedEviction(old)].id \notin {i \in ids : i > n}

\* C18: a setSpots call that creates one spot on a display whose list is at
\* MAX_SPOTS evicts exactly one spot, the first fading one of the list if
\* one is fading and else the first; the others keep their order and the
\* new spot is last. The evicted handle is released: it goes to the pool
\* and from there to the new spot, unless the pool is full, when it is
\* dropped and the new spot takes the pool's last handle. A call that makes
\* MAX_SPOTS + 1 spots on an empty list evicts the first made, that of the
\* lowest id. Ticks and the other calls never reorder a list.
C18_EvictionOrder ==
    [][LET old == ListOf(spotsByDisplay, op'.b)
           l == ListOf(spotsByDisplay', op'.b)
           k == ClaimedEviction(old)
           spare == Len(recycledSprites) < MAX_RECYCLED_SPRITES
       IN /\ (/\ op'.name = "setSpots" /\ IsValid(viewport)
              /\ MakesOneSpot(old, op'.a)) =>
                 /\ Len(l) = MAX_SPOTS
                 /\ SubSeq(Sprites(l), 1, MAX_SPOTS - 1) = Sprites(RemoveAt(old, k))
                 /\ l[MAX_SPOTS].id \in op'.a \ LiveIds(old)
                 /\ l[MAX_SPOTS].alpha = AlphaOne
                 /\ l[MAX_SPOTS].sprite =
                        IF spare THEN old[k].sprite
                        ELSE recycledSprites[Len(recycledSprites)]
                 /\ recycledSprites' =
                        IF spare THEN recycledSprites
                        ELSE SubSeq(recycledSprites, 1, Len(recycledSprites) - 1)
          /\ (/\ op'.name = "setSpots" /\ IsValid(viewport)
              /\ old = <<>>
              /\ Cardinality(op'.a) = MAX_SPOTS + 1) =>
                 /\ Len(l) = MAX_SPOTS
                 /\ LiveIds(l) = op'.a \ {Min(op'.a)}
                 /\ \A i \in 1..(MAX_SPOTS - 1) : l[i].id < l[i + 1].id
          /\ op'.name # "setSpots" =>
                 \A d \in DOMAIN spotsByDisplay' :
                     IsSubSeq(Sprites(spotsByDisplay'[d]), Sprites(spotsByDisplay[d]))]_vars

\* setSpots has made a spot on a full list that held a live spot before a
\* fading one: the fading one went, its handle is the new spot's (the
\* sprite calls are those of two updates and one clearIcon).
C18_Witness ==
    /\ op.name = "setSpots" /\ IsValid(viewport)
    /\ op.a = {0, 2}
    /\ LET l == spotsByDisplay[op.b]
       IN /\ Len(l) = MAX_SPOTS
          /\ l[1].id = 0 /\ l[2].id = 2
          /\ l[1].sprite = 1 /\ l[2].sprite = 2
    /\ recycledSprites = <<>>
    /\ fx.vsync = 0
    /\ fx.sprite \in {13, 15}


\* What a tick at the time t takes off a fading spot's alpha.
SpotStep(t) == ((t - animationTime) * AlphaOne) \div SPOT_FADE_DURATION

\* The handles of the spots of list l that a tick taking step off removes,
\* in the list's order.
RECURSIVE RemovedFrom(_, _)
RemovedFrom(l, step) ==
    IF l = <<>> THEN <<>>
    ELSE IF Head(l).id = INVALID_ID /\ Head(l).alpha - step <= 0
         THEN <<Head(l).sprite>> \o RemovedFrom(Tail(l), step)
         ELSE RemovedFrom(Tail(l), step)

\* The same for the displays ds of the map m, lowest display first.
RECURSIVE RemovedFromAll(_, _, _)
RemovedFromAll(m, ds, step) ==
    IF ds = {} THEN <<>>
    ELSE RemovedFrom(m[Min(ds)], step) \o RemovedFromAll(m, ds \ {Min(ds)}, step)

\* The first n elements of a sequence, all of it when it has fewer.
Prefix(seq, n) == SubSeq(seq, 1, IF n < Len(seq) THEN n ELSE Len(seq))

\* A tick takes the step off every fading spot's alpha, removes the spot
\* when that leaves nothing, and leaves the live spots alone; the removed
\* handles fill the pool's spare room.
TickFadesSpots ==
    LET step == SpotStep(now')
    IN /\ step > 0
       /\ \A d \in DOMAIN spotsByDisplay :
              LET old == spotsByDisplay[d]
                  l == ListOf(spotsByDisplay', d)
              IN \A i \in 1..Len(old) :
                     IF old[i].id # INVALID_ID
                     THEN \E j \in 1..Len(l) : l[j] = old[i]
                     ELSE IF old[i].alpha - step > 0
                     THEN \E j \in 1..Len(l) :
                              /\ l[j] = [old[i] EXCEPT !.alpha = @ - step]
                              /\ l[j].alpha < old[i].alpha
                     ELSE \A e \in DOMAIN spotsByDisplay' :
                              \A j \in 1..Len(spotsByDisplay'[e]) :
                                  spotsByDisplay'[e][j].sprite # old[i].sprite
       /\ recycledSprites' =
              recycledSprites \o
                  Prefix(RemovedFromAll(spotsByDisplay, DOMAIN spotsByDisplay, step),
                         MAX_RECYCLED_SPRITES - Len(recycledSprites))

\* C19 as claimed: a setSpots call leaves every spot that was live with an
\* id that is no longer active in the list, fading; every tick lowers a
\* fading spot's alpha and removes the spot when alpha is 0 or less, its
\* handle going to the pool when the pool has room.
C19_AbsentSpotFades ==
    [][/\ (op'.name = "setSpots" /\ IsValid(viewport)) =>
              GoneSpotsFade(ListOf(spotsByDisplay, op'.b),
                            ListOf(spotsByDisplay', op'.b), op'.a)
       /\ op'.name = "doAnimate" => TickFadesSpots]_vars

\* C19 as amended: the spot is left fading unless the call evicts it to
\* make room, which takes the ids live before the call and the active ids
\* to exceed MAX_SPOTS together; evicted or fading, it is no longer live.
\* The ticks are as claimed.
C19_AbsentSpotFadesUnlessEvicted ==
    [][/\ (op'.name = "setSpots" /\ IsValid(viewport)) =>
              LET old == ListOf(spotsByDisplay, op'.b)
                  l == ListOf(spotsByDisplay', op'.b)
              IN /\ Cardinality(LiveIds(old) \cup op'.a) <= MAX_SPOTS =>
                        GoneSpotsFade(old, l, op'.a)
                 /\ LiveIds(l) \cap (LiveIds(old) \ op'.a) = {}
       /\ op'.name = "doAnimate" => TickFadesSpots]_vars

\* A tick has removed one fading spot, whose handle is in the pool, and
\* taken another part of the way.
C19_Witness ==
    /\ op.name = "doAnimate"
    /\ recycledSprites # <<>>
    /\ fx.bare + fx.sprite >= 2
    /\ \E d \in DOMAIN spotsByDisplay :
           \E i \in 1..Len(spotsByDisplay[d]) :
               /\ spotsByDisplay[d][i].id = INVALID_ID
               /\ spotsByDisplay[d][i].alpha < AlphaOne


\* The handles the pointer, the pool and the spots hold.
HandlesHeld == HandlesInUse(Cur, <<>>)

\* C20: the pool never holds more than MAX_RECYCLED_SPRITES handles; the
\* handles of the spots a tick releases enter the pool, in the order of
\* their release, as far as the pool is below its cap, and the rest are
\* dropped; a setSpots call that makes one spot on a list with room takes
\* the pool's last handle, shrinking the pool by one, and only when the pool
\* is empty a handle nothing held before.
C20_RecyclePool ==
    [][/\ Len(recycledSprites) <= MAX_RECYCLED_SPRITES
       /\ Len(recycledSprites') <= MAX_RECYCLED_SPRITES
       /\ op'.name = "doAnimate" =>
              recycledSprites' =
                  recycledSprites \o
                      Prefix(RemovedFromAll(spotsByDisplay, DOMAIN spotsByDisplay,
                                            SpotStep(now')),
                             MAX_RECYCLED_SPRITES - Len(recycledSprites))
       /\ (/\ op'.name = "setSpots" /\ IsValid(viewport)
           /\ Len(ListOf(spotsByDisplay, op'.b)) < MAX_SPOTS
           /\ Cardinality(op'.a \ LiveIds(ListOf(spotsByDisplay, op'.b))) = 1) =>
              LET old == ListOf(spotsByDisplay, op'.b)
                  l == spotsByDisplay'[op'.b]
              IN /\ Len(l) = Len(old) + 1
                 /\ SubSeq(Sprites(l), 1, Len(old)) = Sprites(old)
                 /\ IF recycledSprites = <<>>
                    THEN /\ l[Len(l)].sprite \notin HandlesHeld
                         /\ recycledSprites' = <<>>
                    ELSE /\ l[Len(l)].sprite = recycledSprites[Len(recycledSprites)]
                         /\ recycledSprites' =
                                SubSeq(recycledSprites, 1, Len(recycledSprites) - 1)]_vars

\* A tick has released the two spots of a display with the pool taking one
\* handle only.
C20_Witness ==
    /\ op.name = "doAnimate"
    /\ fx.bare = 2
    /\ spotsByDisplay = <<>>
    /\ Len(recycledSprites) = MAX_RECYCLED_SPRITES

\* C21: in every reachable state the pointer's alpha lies in [0, 1],
\* whatever fade and unfade calls (immediate or gradual, reversing a fade
\* under way included) and ticks of whatever elapsed time came before.
C21_AlphaInUnitInterval ==
    0 <= pointerAlpha /\ pointerAlpha <= AlphaOne

\* unfade(GRADUAL) has been called on a pointer that a tick had left part of
\* the way through a fade, with the next tick still pending.
C21_Witness ==
    /\ op.name = "unfade" /\ op.a = "GRADUAL"
    /\ pointerFadeDirection = 1
    /\ 0 < pointerAlpha /\ pointerAlpha < AlphaOne
    /\ pointerSprite.visible /\ pointerSprite.alpha = pointerAlpha
    /\ animationPending

\* C22: every public operation, doAnimate and the inactivity handler read
\* and write the shared state only while holding mLock (a thread about to
\* touch it is the lock's holder), no thread comes to an AutoMutex while it
\* holds the lock, an operation is one critical section, and the holder is
\* always a thread that can go on to its unlock, so the operations are
\* serial and the lock cannot deadlock.
C22_LockDiscipline ==
    /\ \A t \in Threads :
           /\ NextStep(t) = "touch" => mLock = t
           /\ NextStep(t) = "lock" => mLock # t
           /\ threads[t].sections <= 1
           /\ Cardinality({i \in DOMAIN threads[t].frames :
                               threads[t].frames[i].locked}) <= 1
    /\ mLock # "none" =>
           /\ Running(mLock)
           /\ NextStep(mLock) # "lock"
           /\ \E i \in DOMAIN threads[mLock].frames : threads[mLock].frames[i].locked

\* The looper is inside a tick, about to write animationPending in
\* startAnimationLocked, while both callers wait at their AutoMutex.
C22_Witness ==
    /\ mLock = "looper"
    /\ Top("looper").f = "startAnimationLocked"
    /\ NextStep("looper") = "touch"
    /\ threads["looper"].frames[1].f = "handleEvent"
    /\ NextStep("reader") = "lock" /\ Top("reader").f = "setSpots"
    /\ NextStep("policy") = "lock" /\ Top("policy").f = "setDisplayViewport"

\* Everything the controller owns or has asked of its collaborators.
controllerState ==
    <<viewport, pointerX, pointerY, pointerAlpha, pointerFadeDirection,
      presentation, presentationChanged, pointerIconChanged,
      requestedPointerType, inactivityTimeout, animationPending,
      animationTime, animationFrameIndex, lastFrameUpdatedTime,
      resourcesDisplay, additionalMouseResources, animationResources,
      spotsByDisplay, recycledSprites, pointerSprite, msgQueue, vsyncRequests>>

\* C23: a callback delivered after the controller was destroyed touches no
\* controller state and calls no collaborator; the fd callback returns 0,
\* so the looper drops it; no fade and no animation step runs.
C23_CallbacksAfterDestruction ==
    [][pointerController = "expired" =>
           /\ UNCHANGED controllerState
           /\ fx' = NoFx
           /\ op'.name \in {"handleMessage", "handleEvent"}
           /\ op'.name = "handleEvent" => ~fdCallback'
           /\ pointerController' = "expired"]_vars

\* The controller was destroyed in the middle of a fade out with a pulse
\* requested; the fd event that came afterwards took the callback off.
C23_Witness ==
    /\ pointerController = "expired"
    /\ op.name = "handleEvent"
    /\ ~fdCallback
    /\ animationPending /\ vsyncRequests = 1
    /\ pointerFadeDirection = -1 /\ pointerAlpha > 0

\* Some spot of m is fading out and still visible.
SomeSpotFading(m) ==
    \E d \in DOMAIN m : \E i \in DOMAIN m[d] :
        m[d][i].id = INVALID_ID /\ m[d][i].alpha > 0

\* C24: when a tick returns, animationPending is true and the tick has
\* requested one new vsync iff the pointer is still fading, or some spot is
\* still fading with alpha > 0, or the requested icon has an animation
\* resource; otherwise animationPending is false and no request is
\* outstanding.
C24_TickRearmsIffNeeded ==
    [][op'.name = "doAnimate" =>
           IF \/ pointerFadeDirection' # 0
              \/ SomeSpotFading(spotsByDisplay')
              \/ requestedPointerType' \in animationResources'
           THEN animationPending' /\ fx'.vsync = 1 /\ vsyncRequests' = 1
           ELSE ~animationPending' /\ fx'.vsync = 0 /\ vsyncRequests' = 0]_vars

\* A tick has left the pointer opaque and not fading, under a plain icon,
\* and has re-armed only for a spot that is still fading.
C24_Witness ==
    /\ op.name = "doAnimate"
    /\ pointerFadeDirection = 0 /\ pointerAlpha = AlphaOne
    /\ requestedPointerType \notin animationResources
    /\ SomeSpotFading(spotsByDisplay)
    /\ animationPending /\ vsyncRequests = 1 /\ fx.vsync = 1
    /\ pointerSprite.alpha = AlphaOne

\* C25: animationPending is true exactly when one vsync request has been
\* issued whose pulse has not yet come to doAnimate; at most one request is
\* outstanding; an operation requests at most one vsync, and only when it
\* found animationPending false or, being the tick, has just cleared it.
C25_PendingIsOneRequest ==
    /\ [](/\ vsyncRequests \in {0, 1}
          /\ animationPending <=> vsyncRequests = 1)
    /\ [][/\ fx'.vsync \in {0, 1}
          /\ fx'.vsync = 1 => (~animationPending \/ op'.name = "doAnimate")
          /\ vsyncRequests' = vsyncRequests + fx'.vsync
                                  - (IF op'.name = "doAnimate" THEN 1 ELSE 0)]_vars

\* fade(GRADUAL) has found a tick pending and requested no second one.
C25_Witness ==
    /\ op.name = "fade" /\ op.a = "GRADUAL"
    /\ pointerFadeDirection = -1
    /\ animationPending /\ vsyncRequests = 1
    /\ fx.vsync = 0

\* The requested icon has an animation resource.
Animated == requestedPointerType \in animationResources

\* What the claim says of a tick on an animated icon of N frames and
\* duration d per frame, the pulse's timestamp being the clock afterwards.
TickFlipsFrames ==
    [][(op'.name = "doAnimate" /\ Animated) =>
           LET N == FramesOf(requestedPointerType)
               d == DurationPerFrame
               elapsed == now' - lastFrameUpdatedTime
           IN /\ IF elapsed > d
                 THEN /\ animationFrameIndex' =
                             (animationFrameIndex + elapsed \div d) % N
                      /\ lastFrameUpdatedTime' =
                             lastFrameUpdatedTime + d * (elapsed \div d)
                      /\ pointerSprite'.icon =
                             <<"frame", requestedPointerType, animationFrameIndex'>>
                      /\ animationFrameIndex' < N
                 ELSE /\ animationFrameIndex' = animationFrameIndex
                      /\ lastFrameUpdatedTime' = lastFrameUpdatedTime
              /\ animationPending']_vars

\* C26 as claimed: a tick on an animated icon flips the frames as above and
\* keeps animating, and in every state 0 <= animationFrameIndex < N.
C26_FrameIndexAlwaysInRange ==
    /\ TickFlipsFrames
    /\ [](/\ 0 <= animationFrameIndex
          /\ Animated => animationFrameIndex < FramesOf(requestedPointerType))

\* C26 as amended: a tick on an animated icon flips the frames as above and
\* keeps animating; in every state 0 <= animationFrameIndex, and the index
\* is below N whenever a tick has picked a frame or a push has shown the
\* animated icon.
C26_FrameIndexInRangeWhenUsed ==
    /\ TickFlipsFrames
    /\ [](0 <= animationFrameIndex)
    /\ [](Animated /\ pointerSprite.icon \in
                          {<<"frame", requestedPointerType, animationFrameIndex>>,
                           <<"additional", requestedPointerType>>}
              => animationFrameIndex < FramesOf(requestedPointerType))

\* A tick has flipped the longer animation to its last frame and keeps
\* animating.
C26_Witness ==
    /\ op.name = "doAnimate"
    /\ requestedPointerType = "PROGRESS" /\ Animated
    /\ animationFrameIndex = FrameCount
    /\ pointerSprite.icon = <<"frame", "PROGRESS", FrameCount>>
    /\ presentation = "POINTER"
    /\ animationPending

\* Some spot of m is marked INVALID_ID.
SomeSpotMarked(m) ==
    \E d \in DOMAIN m : \E i \in DOMAIN m[d] : m[d][i].id = INVALID_ID

\* No public call can come any more.
Quiet == now > LastCallTime

C28_SpriteMatchesState ==
    IsValid(viewport) =>
        /\ pointerSprite.x = pointerX
        /\ pointerSprite.y = pointerY
        /\ pointerSprite.displayId = viewport.displayId
        /\ pointerSprite.visible <=> pointerAlpha > 0
        /\ pointerSprite.visible => pointerSprite.alpha = pointerAlpha

\* A tick has taken the pointer part of the way through a fade on the turned
\* display 0, after the pointer had been moved off the centre.
C28_Witness ==
    /\ op.name = "doAnimate"
    /\ viewport = Rotated(0, 90, NaturalWidth, NaturalHeight)
    /\ 0 < pointerAlpha /\ pointerAlpha < AlphaOne
    /\ pointerSprite.visible /\ pointerSprite.alpha = pointerAlpha
    /\ pointerX = Px(NaturalHeight - 1) /\ pointerSprite.x = pointerX
    /\ pointerSprite.displayId = 0

\* The step is a call that reaches updatePointerLocked: an icon request that
\* differs from the stored one, a custom icon, a reload, a switch to POINTER,
\* a changed viewport, an immediate fade or unfade, or a tick of a fading
\* pointer; the push goes through when the viewport it finds is valid.
RenderingPush ==
    /\ IsValid(viewport')
    /\ \/ op'.name = "updatePointerIcon" /\ op'.a # requestedPointerType
       \/ op'.name \in {"setCustomPointerIcon", "reloadPointerResources"}
       \/ op'.name = "setPresentation" /\ op'.a = "POINTER" /\ presentation # "POINTER"
       \/ op'.name = "setDisplayViewport" /\ op'.a # viewport
       \/ op'.name \in {"fade", "unfade"} /\ op'.a = "IMMEDIATE"
       \/ op'.name = "doAnimate" /\ pointerFadeDirection # 0

\* A dirty flag is up when that push happens: it was up before the call, or
\* the call raised it on its way to the push.
DirtyAtPush ==
    \/ pointerIconChanged
    \/ presentationChanged
    \/ op'.name \in {"updatePointerIcon", "setCustomPointerIcon",
                     "reloadPointerResources", "setPresentation"}
    \/ /\ op'.name = "setDisplayViewport"
       /\ \/ op'.a.displayId # viewport.displayId
          \/ getNonRotatedSize(op'.a) # getNonRotatedSize(viewport)

\* C29: in POINTER presentation a rendering push with a dirty flag shows the
\* default icon when the requested id is the default id or is not in the
\* additional-icon table, shows the table's icon otherwise, and for an id with
\* an animation resource also resets animationFrameIndex to 0 and arms the
\* animation loop; the push clears both dirty flags.
C29_PointerPushPicksIcon ==
    [][(RenderingPush /\ DirtyAtPush /\ presentation' = "POINTER") =>
          /\ ~pointerIconChanged'
          /\ ~presentationChanged'
          /\ IF \/ requestedPointerType' = DefaultIconId
                \/ requestedPointerType' \notin additionalMouseResources'
             THEN pointerSprite'.icon = <<"pointerIcon">>
             ELSE /\ pointerSprite'.icon = <<"additional", requestedPointerType'>>
                  /\ requestedPointerType' \in animationResources' =>
                         /\ animationFrameIndex' = 0
                         /\ animationPending']_vars

\* An id the table lacks was requested while the table holds the policy's
\* icons and an earlier animation had left its frame index above 0: the push
\* fell back to the default icon.
C29_Witness ==
    /\ op.name = "updatePointerIcon" /\ op.a = "UNKNOWN"
    /\ IsValid(viewport) /\ presentation = "POINTER"
    /\ "WAIT" \in additionalMouseResources
    /\ animationFrameIndex > 0
    /\ pointerSprite.icon = <<"pointerIcon">>
    /\ ~pointerIconChanged /\ ~presentationChanged

\* C30: in SPOT presentation, once a rendering push has happened since the
\* switch (presentationChanged is down again), the pointer sprite shows the
\* anchor icon and an animation tick leaves it showing the anchor icon: no
\* tick puts a frame of an animated pointer icon in its place.
C30_TickKeepsSpotAnchor ==
    [][(/\ op'.name = "doAnimate"
        /\ presentation = "SPOT"
        /\ ~presentationChanged
        /\ IsValid(viewport)) =>
           pointerSprite'.icon = <<"spotAnchor">>]_vars

\* C31: every call that changes a sprite (the pointer's or a spot's) is made
\* while a sprite-controller transaction is open, and every transaction an
\* operation opens is closed again before the operation ends; fx counts the
\* sprite calls the last operation made outside a transaction (bare) and the
\* transactions it left open (depth).
C31_MutationsInsideTransactions ==
    /\ fx.bare = 0
    /\ fx.depth = 0

\* The places that hold a spot handle: the slots of the recycle pool and the
\* spots of every display's list.
HandlePlaces ==
    {<<"pool", 0, i>> : i \in 1..Len(recycledSprites)}
        \cup UNION {{<<"spot", d, i>> : i \in 1..Len(spotsByDisplay[d])}
                    : d \in DOMAIN spotsByDisplay}

HandleAt(p) ==
    IF p[1] = "pool" THEN recycledSprites[p[3]] ELSE spotsByDisplay[p[2]][p[3]].sprite

\* C32: a handle is held in one place at most: no two spots of any lists
\* share a handle, no handle of the pool is a spot's, and no handle is in
\* the pool twice.
C32_HandleHasOneOwner ==
    \A p, q \in HandlePlaces : p # q => HandleAt(p) # HandleAt(q)

\* setSpots found a full list of two live spots and one new id: it evicted
\* the first spot, whose handle went through the pool to the new spot, and
\* marked the other one, which keeps its own handle.
C32_Witness ==
    /\ op.name = "setSpots" /\ IsValid(viewport)
    /\ op.a = {2}
    /\ LET l == spotsByDisplay[op.b]
       IN /\ Len(l) = MAX_SPOTS
          /\ l[1].id = INVALID_ID /\ l[1].alpha = AlphaOne
          /\ l[2].id = 2
          /\ l[1].sprite = 2 /\ l[2].sprite = 1
    /\ recycledSprites = <<>>

\* C33: between operations, a pointer that is fading (direction not NONE) or
\* a spot marked INVALID_ID on any display means animationPending is true:
\* a tick has been requested that will take the fade on.
C33_FadeHasTickRequested ==
    (pointerFadeDirection # 0 \/ SomeSpotMarked(spotsByDisplay)) => animationPending

\* A tick has left the pointer part of the way into a fade in and a marked
\* spot part of the way out, and has asked for the next tick.
C33_Witness ==
    /\ op.name = "doAnimate"
    /\ pointerFadeDirection = 1
    /\ 0 < pointerAlpha /\ pointerAlpha < AlphaOne
    /\ SomeSpotFading(spotsByDisplay)
    /\ animationPending
    /\ fx.vsync = 1

\* C34: an inactivity message that the looper took off its queue before an
\* unfade call, and hands to handleMessage after that call has returned,
\* has no effect: the pointer does not start fading out and the message
\* that the unfade call sent stays pending.
C34_StaleTimeoutHasNoEffect ==
    [][(/\ looperPc = "timeout"
        /\ op.name = "unfade"
        /\ op'.name = "doInactivityTimeout") =>
           /\ pointerFadeDirection' # -1
           /\ msgQueue' = msgQueue]_vars

\* The threads inside exchange() with a repl buffer.
Exchanging == {t \in Callers : lmkd.callers[t].pc \in {"waiting", "notified"}}

\* exchange() with a repl buffer has returned to thread t.
Exchanged(t) ==
    /\ lmkd.callers[t].call = "exchange"
    /\ lmkd.callers[t].pc = "idle"

\* It returned true only with a packet that isReplyExpected accepted for
\* its repl buffer copied into that buffer.
TrueOnlyWithReply ==
    \A t \in Callers :
        (Exchanged(t) /\ lmkd.callers[t].result = "true") => lmkd.callers[t].copied

\* It did not return true when its write failed, when its wait was
\* interrupted, or when what ended its wait was a packet neither expected
\* nor handled or an error of the socket.
FalseOnFailure ==
    \A t \in Callers :
        (Exchanged(t)
            /\ lmkd.callers[t].cause \in {"write", "interrupted", "unexpected", "error"}) =>
            lmkd.callers[t].result # "true"

\* mReplyBuf is null when no thread is inside exchange().
ReplyBufNullOutsideExchange == Exchanging = {} => lmkd.mReplyBuf = "null"

\* The processing of a packet that is not the expected reply and that
\* handleUnsolicitedMessage handles leaves every exchange as it was.
UnsolicitedLeavesExchange ==
    (/\ lmkd.handler = "process" /\ lmkd'.handler # "process"
     /\ lmkd.mReplyBuf # "null"
     /\ lmkd.mReplyBuf \notin lmkd.mInputBuf.expected
     /\ lmkd.mInputBuf.handled) =>
        /\ lmkd'.callers = lmkd.callers
        /\ lmkd'.mReplyBuf = lmkd.mReplyBuf

\* C35: exchange(req, repl) with a repl buffer returns true only if a packet
\* accepted by isReplyExpected for that buffer was copied into it while it
\* waited; it returns false when the write fails, the wait is interrupted,
\* an unexpected packet arrives or the socket reports an error; a handled
\* unsolicited message neither wakes nor completes a waiting exchange; and
\* mReplyBuf is null whenever no exchange is in progress.
C35_ExchangeOutcome ==
    [][/\ TrueOnlyWithReply'
       /\ FalseOnFailure'
       /\ ReplyBufNullOutsideExchange'
       /\ UnsolicitedLeavesExchange]_vars

\* The step is the handler's block under mLmkdSocketLock, its block under
\* mReplyBufLock, its callback, a return of exchange, or a connect call.
ClosesSocket == lmkd.handler = "close" /\ lmkd'.handler = "wake"
WakesWaiters == lmkd.handler = "wake" /\ lmkd'.handler = "disconnect"
Disconnects == lmkd.handler = "disconnect" /\ lmkd'.handler = "idle"
Connects(t) == lmkd'.last = [name |-> "connect", t |-> t, a |-> "ok"] /\ lmkd' # lmkd

\* On EVENT_ERROR the listener is removed and the socket closed and cleared.
ErrorClosesSocket ==
    ClosesSocket =>
        /\ lmkd'.fdListener = 0
        /\ lmkd.mLmkdSocket \in lmkd'.closed
        /\ ~isConnected(lmkd')

\* Every thread waiting in exchange() is woken.
ErrorWakesEveryWaiter ==
    WakesWaiters =>
        \A t \in Callers :
            lmkd.callers[t].pc = "waiting" => lmkd'.callers[t].pc = "notified"

\* An exchange that the error woke returns false.
ErrorFailsExchange ==
    \A t \in Callers :
        (lmkd.callers[t].pc = "notified" /\ lmkd.callers[t].cause = "error"
            /\ lmkd'.callers[t].pc = "idle") =>
            lmkd'.callers[t].result = "false"

\* onDisconnect is called once, at the end of the handling of the error.
DisconnectsOnce ==
    lmkd'.onDisconnect = lmkd.onDisconnect + (IF Disconnects THEN 1 ELSE 0)

\* connect() on a disconnected instance opens a socket not used before; on
\* a connected one it returns true, opens nothing and calls nothing.
ConnectOpensOnlyWhenNeeded ==
    \A t \in Callers :
        Connects(t) =>
            /\ lmkd'.callers[t].result = "true"
            /\ IF isConnected(lmkd)
               THEN /\ lmkd'.mLmkdSocket = lmkd.mLmkdSocket
                    /\ lmkd'.opened = lmkd.opened
                    /\ lmkd'.onConnect = lmkd.onConnect
               ELSE /\ lmkd'.mLmkdSocket = lmkd.opened + 1
                    /\ lmkd'.mLmkdSocket \notin lmkd'.closed
                    /\ lmkd'.fdListener = lmkd'.mLmkdSocket

\* C36: when the socket reports EVENT_ERROR the fd listener is removed, the
\* socket is closed and cleared, every thread waiting in exchange() is woken
\* and its exchange returns false, and onDisconnect is called exactly once;
\* a later connect() opens a new socket, and connect() on a connected
\* instance returns true without opening a socket or calling onConnect.
C36_ErrorDisconnects ==
    [][/\ ErrorClosesSocket
       /\ ErrorWakesEveryWaiter
       /\ ErrorFailsExchange
       /\ DisconnectsOnce
       /\ ConnectOpensOnlyWhenNeeded]_vars

====
